---- MODULE Spec2Model ----
(***************************************************************************)
(* The Firebird -> MySQL inventory synchronisation of waldirborbajr/sync:  *)
(* the worker-pool ProcessRows of processor/processor.go and its caller    *)
(* runProcessing of main_helpers.go.                                       *)
(*                                                                         *)
(* Decimal values (float64 in the source) are integers counting            *)
(* thousandths, so that rounding to two decimals is a real operation:      *)
(* 1004 is 1.004 and rounds to 1000 (1.00); 1005 rounds to 1010.           *)
(* A sql.NullFloat64 / sql.NullString is a record [Valid, Float64/String]. *)
(***************************************************************************)
EXTENDS Integers, Sequences, FiniteSets, TLC

(***************************************************************************)
(* Bounds of the model.                                                    *)
(***************************************************************************)
\* number of rows the Firebird cursor yields (ids 1..MaxRows)
MaxRows == 3
\* number of worker goroutines started by ProcessRows
NumWorkers == 2
\* the flush threshold of a worker (const batchSize = 500 in the source,
\* scaled down so that a batch fills within MaxRows rows)
batchSize == 2
\* batchSize of ProcessRows, which sizes the work queue: small enough for
\* the queue to fill up within MaxRows rows
queueBatchSize == 1
\* number of consecutive runs of ProcessRows in SpecTwoRuns
MaxRuns == 2

Ids == 1..MaxRows
Workers == 1..NumWorkers

(***************************************************************************)
(* config.Config: the pricing percentages (defaults of LoadConfig).        *)
(***************************************************************************)
Lucro == 40
Parc3x == 5
Parc6x == 10
Parc10x == 15
cfg == [Lucro |-> Lucro, Parc3x |-> Parc3x, Parc6x |-> Parc6x, Parc10x |-> Parc10x]

(***************************************************************************)
(* Values.                                                                 *)
(***************************************************************************)
NullFloat == [Valid |-> FALSE, Float64 |-> 0]
NF(x) == [Valid |-> TRUE, Float64 |-> x]
NullStr == [Valid |-> FALSE, String |-> ""]
NS(s) == [Valid |-> TRUE, String |-> s]

\* a rounding that takes halves towards plus infinity instead
MathRoundHalfUp(n, d) == (n \div d) + (IF 2 * (n % d) >= d THEN 1 ELSE 0)

\* n/d rounded to the nearest integer, halves away from zero (math.Round), d > 0
MathRound(n, d) ==
    LET Nearest(a) == (a \div d) + (IF 2 * (a % d) >= d THEN 1 ELSE 0)
    IN IF n >= 0 THEN Nearest(n) ELSE -Nearest(-n)

\* math.Round(x*100)/100 on a value in thousandths
Round2(x) == 10 * MathRound(x, 10)

roundFloat(value) == IF value.Valid THEN Round2(value.Float64) ELSE 0

\* a calculator that derives the instalments from the rounded sale price
calculatePricesFromRounded(prcCusto, c) ==
    IF ~prcCusto.Valid \/ prcCusto.Float64 = 0
    THEN [prcVenda |-> 0, prc3x |-> 0, prc6x |-> 0, prc10x |-> 0]
    ELSE LET venda == 10 * MathRound(prcCusto.Float64 * (100 + c.Lucro), 1000)
         IN [prcVenda |-> venda,
             prc3x    |-> 10 * MathRound(venda * (100 + c.Parc3x), 1000 * 3),
             prc6x    |-> 10 * MathRound(venda * (100 + c.Parc6x), 1000 * 6),
             prc10x   |-> 10 * MathRound(venda * (100 + c.Parc10x), 1000 * 10)]

\* the four prices; each is rounded from the unrounded product
calculatePrices(prcCusto, c) ==
    IF ~prcCusto.Valid \/ prcCusto.Float64 = 0
    THEN [prcVenda |-> 0, prc3x |-> 0, prc6x |-> 0, prc10x |-> 0]
    ELSE LET custo == prcCusto.Float64
             m == custo * (100 + c.Lucro)
         IN [prcVenda |-> 10 * MathRound(m, 1000),
             prc3x    |-> 10 * MathRound(m * (100 + c.Parc3x), 100 * 1000 * 3),
             prc6x    |-> 10 * MathRound(m * (100 + c.Parc6x), 100 * 1000 * 6),
             prc10x   |-> 10 * MathRound(m * (100 + c.Parc10x), 100 * 1000 * 10)]

Payload(type, idEstoque, descricao, qtdAtual, prcCusto, prcDolar, c) ==
    LET p == calculatePrices(prcCusto, c)
    IN [Type |-> type, IDEstoque |-> idEstoque, Descricao |-> descricao,
        QtdAtual |-> qtdAtual, PrcCusto |-> roundFloat(prcCusto),
        PrcDolar |-> roundFloat(prcDolar), PrcVenda |-> p.prcVenda,
        Prc3x |-> p.prc3x, Prc6x |-> p.prc6x, Prc10x |-> p.prc10x]

\* RowOperation{Type: OpIgnore}: every other field has its zero value
IgnoreOp ==
    [Type |-> "OpIgnore", IDEstoque |-> 0, Descricao |-> "", QtdAtual |-> 0,
     PrcCusto |-> 0, PrcDolar |-> 0, PrcVenda |-> 0, Prc3x |-> 0, Prc6x |-> 0,
     Prc10x |-> 0]

\* (mutant) the source cost is compared unrounded
UpToDateRawSource(rec, descricao, qtdAtual, prcCusto, prcDolar, c) ==
    LET p == calculatePrices(prcCusto, c)
    IN /\ rec.Descricao.Valid /\ rec.Quantidade.Valid
       /\ rec.Descricao.String = descricao
       /\ rec.Quantidade.Float64 = qtdAtual
       /\ roundFloat(rec.ValorCusto) = prcCusto.Float64
       /\ roundFloat(rec.ValorUsd) = roundFloat(prcDolar)
       /\ roundFloat(rec.PrcVenda) = p.prcVenda
       /\ roundFloat(rec.Prc3x) = p.prc3x
       /\ roundFloat(rec.Prc6x) = p.prc6x
       /\ roundFloat(rec.Prc10x) = p.prc10x

\* (mutant) the snapshot values are compared as stored, not rounded
UpToDateExactTarget(rec, descricao, qtdAtual, prcCusto, prcDolar, c) ==
    LET p == calculatePrices(prcCusto, c)
    IN /\ rec.Descricao.Valid /\ rec.Quantidade.Valid
       /\ rec.Descricao.String = descricao
       /\ rec.Quantidade.Float64 = qtdAtual
       /\ rec.ValorCusto.Float64 = roundFloat(prcCusto)
       /\ rec.ValorUsd.Float64 = roundFloat(prcDolar)
       /\ rec.PrcVenda.Float64 = p.prcVenda
       /\ rec.Prc3x.Float64 = p.prc3x
       /\ rec.Prc6x.Float64 = p.prc6x
       /\ rec.Prc10x.Float64 = p.prc10x

\* (mutant) the four derived prices are not compared
UpToDateWithoutPrices(rec, descricao, qtdAtual, prcCusto, prcDolar, c) ==
    /\ rec.Descricao.Valid /\ rec.Quantidade.Valid
    /\ rec.Descricao.String = descricao
    /\ rec.Quantidade.Float64 = qtdAtual
    /\ roundFloat(rec.ValorCusto) = roundFloat(prcCusto)
    /\ roundFloat(rec.ValorUsd) = roundFloat(prcDolar)

\* the comparison that decides Ignore against Update
UpToDate(rec, descricao, qtdAtual, prcCusto, prcDolar, c) ==
    LET p == calculatePrices(prcCusto, c)
    IN /\ rec.Descricao.Valid /\ rec.Quantidade.Valid
       /\ rec.Descricao.String = descricao
       /\ rec.Quantidade.Float64 = qtdAtual
       /\ roundFloat(rec.ValorCusto) = roundFloat(prcCusto)
       /\ roundFloat(rec.ValorUsd) = roundFloat(prcDolar)
       /\ roundFloat(rec.PrcVenda) = p.prcVenda
       /\ roundFloat(rec.Prc3x) = p.prc3x
       /\ roundFloat(rec.Prc6x) = p.prc6x
       /\ roundFloat(rec.Prc10x) = p.prc10x

\* (mutant) the snapshot is not consulted
processRowAlwaysInsert(records, idEstoque, descricao, qtdAtual, prcCusto, prcDolar, c) ==
    Payload("OpInsert", idEstoque, descricao, qtdAtual, prcCusto, prcDolar, c)

processRowOptimized(records, idEstoque, descricao, qtdAtual, prcCusto, prcDolar, c) ==
    IF idEstoque \notin DOMAIN records
    THEN Payload("OpInsert", idEstoque, descricao, qtdAtual, prcCusto, prcDolar, c)
    ELSE IF UpToDate(records[idEstoque], descricao, qtdAtual, prcCusto, prcDolar, c)
         THEN IgnoreOp
         ELSE Payload("OpUpdate", idEstoque, descricao, qtdAtual, prcCusto, prcDolar, c)

\* the TB_ESTOQUE row that an operation's nine bound values make
RowOf(op) ==
    [Descricao |-> NS(op.Descricao), Quantidade |-> NF(op.QtdAtual),
     ValorCusto |-> NF(op.PrcCusto), ValorUsd |-> NF(op.PrcDolar),
     PrcVenda |-> NF(op.PrcVenda), Prc3x |-> NF(op.Prc3x),
     Prc6x |-> NF(op.Prc6x), Prc10x |-> NF(op.Prc10x)]


(***************************************************************************)
(* The target database: TB_ESTOQUE as a map id -> row (ID_ESTOQUE is the   *)
(* primary key), and the two bulk writers.                                 *)
(***************************************************************************)
IdsOf(ops) == {ops[k].IDEstoque : k \in 1..Len(ops)}

\* a multi-row INSERT violates the primary key when an id is already
\* stored or occurs twice in the statement
DuplicateKey(db, ops) ==
    \/ \E k \in 1..Len(ops) : ops[k].IDEstoque \in DOMAIN db
    \/ \E j, k \in 1..Len(ops) : j # k /\ ops[j].IDEstoque = ops[k].IDEstoque

\* the rows of db after the first n value groups / UPDATE statements
InsertRows(db, ops, n) ==
    [i \in DOMAIN db \cup {ops[k].IDEstoque : k \in 1..n} |->
        IF \E k \in 1..n : ops[k].IDEstoque = i
        THEN RowOf(ops[CHOOSE k \in 1..n : ops[k].IDEstoque = i])
        ELSE db[i]]

\* (mutant) an UPDATE without its WHERE clause
UpdateRowsNoWhere(db, ops, n) ==
    IF n = 0 THEN db ELSE [i \in DOMAIN db |-> RowOf(ops[n])]

RECURSIVE UpdateRows(_, _, _)
UpdateRows(db, ops, n) ==
    IF n = 0 THEN db
    ELSE LET before == UpdateRows(db, ops, n - 1)
             op == ops[n]
         IN IF op.IDEstoque \in DOMAIN before
            THEN [before EXCEPT ![op.IDEstoque] = RowOf(op)]
            ELSE before

\* what the server keeps of a statement or transaction that failed
StatementAborted(db, partial) == db
\* (mutant) the statements already executed in the transaction stay
RollbackMissing(db, tx) == tx
\* tx.Rollback()
Rollback(db, tx) == db

\* result of db.Exec for the multi-row INSERT; env is what the server answers
\* when the statement is otherwise valid: "ok", "packet" (the statement is
\* larger than max_allowed_packet) or "error"
InsertOutcomes == {"ok", "packet", "error"}
executeBulkInsert(db, ops, env) ==
    IF Len(ops) = 0 THEN [db |-> db, err |-> "nil"]
    ELSE IF env # "ok" THEN [db |-> StatementAborted(db, InsertRows(db, ops, Len(ops) - 1)), err |-> env]
    ELSE IF DuplicateKey(db, ops) THEN [db |-> StatementAborted(db, db), err |-> "error"]
    ELSE [db |-> InsertRows(db, ops, Len(ops)), err |-> "nil"]

\* failAt: 0 nothing fails, -1 Begin fails, -2 Prepare fails,
\* k in 1..Len(ops) the k-th stmt.Exec fails, Len(ops)+1 Commit fails
UpdateOutcomes(ops) == (-2)..(Len(ops) + 1)
executeBulkUpdate(db, ops, failAt) ==
    IF Len(ops) = 0 THEN [db |-> db, err |-> "nil"]
    ELSE IF failAt = -1 THEN [db |-> db, err |-> "error"]
    ELSE IF failAt = -2 THEN [db |-> Rollback(db, db), err |-> "error"]
    ELSE IF failAt \in 1..Len(ops)
         THEN [db |-> Rollback(db, UpdateRows(db, ops, failAt - 1)), err |-> "error"]
    ELSE IF failAt = Len(ops) + 1
         THEN [db |-> StatementAborted(db, UpdateRows(db, ops, Len(ops))), err |-> "error"]
    ELSE [db |-> UpdateRows(db, ops, Len(ops)), err |-> "nil"]

\* (mutant) the update buffer is not emptied after a successful write
flushBatchesKeepsUpdates(ib, ub, db, ic, uc, envIns, envUpd) ==
    LET ri == executeBulkInsert(db, ib, envIns)
        calls == IF Len(ib) > 0 THEN 1 ELSE 0
    IN IF Len(ib) > 0 /\ ri.err # "nil"
       THEN [insertBatch |-> ib, updateBatch |-> ub, db |-> ri.db,
             inserted |-> ic, updated |-> uc, err |-> ri.err,
             ins |-> ri.err, insCalls |-> calls, upd |-> "none"]
       ELSE LET ru == executeBulkUpdate(ri.db, ub, envUpd)
                insRes == IF Len(ib) > 0 THEN "ok" ELSE "none"
            IN [insertBatch |-> <<>>, updateBatch |-> ub, db |-> ru.db,
                inserted |-> ic + Len(ib),
                updated |-> IF ru.err = "nil" THEN uc + Len(ub) ELSE uc,
                err |-> ru.err, ins |-> insRes, insCalls |-> calls,
                upd |-> IF Len(ub) = 0 THEN "none"
                        ELSE IF ru.err = "nil" THEN "ok" ELSE ru.err]

\* (mutant) the counters are raised before the writes are known to have
\* succeeded
flushBatchesCountsAttempts(ib, ub, db, ic, uc, envIns, envUpd) ==
    LET ri == executeBulkInsert(db, ib, envIns)
        calls == IF Len(ib) > 0 THEN 1 ELSE 0
    IN IF Len(ib) > 0 /\ ri.err # "nil"
       THEN [insertBatch |-> ib, updateBatch |-> ub, db |-> ri.db,
             inserted |-> ic + Len(ib), updated |-> uc, err |-> ri.err,
             ins |-> ri.err, insCalls |-> calls, upd |-> "none"]
       ELSE LET ru == executeBulkUpdate(ri.db, ub, envUpd)
                insRes == IF Len(ib) > 0 THEN "ok" ELSE "none"
            IN IF Len(ub) > 0 /\ ru.err # "nil"
               THEN [insertBatch |-> <<>>, updateBatch |-> ub, db |-> ru.db,
                     inserted |-> ic + Len(ib), updated |-> uc + Len(ub),
                     err |-> ru.err,
                     ins |-> insRes, insCalls |-> calls, upd |-> ru.err]
               ELSE [insertBatch |-> <<>>, updateBatch |-> <<>>, db |-> ru.db,
                     inserted |-> ic + Len(ib), updated |-> uc + Len(ub),
                     err |-> "nil", ins |-> insRes, insCalls |-> calls,
                     upd |-> IF Len(ub) > 0 THEN "ok" ELSE "none"]

\* the closure flushBatches of worker: insert buffer first, and the update
\* buffer only when the insert did not fail
flushBatches(ib, ub, db, ic, uc, envIns, envUpd) ==
    LET ri == executeBulkInsert(db, ib, envIns)
        calls == IF Len(ib) > 0 THEN 1 ELSE 0
    IN IF Len(ib) > 0 /\ ri.err # "nil"
       THEN [insertBatch |-> ib, updateBatch |-> ub, db |-> ri.db,
             inserted |-> ic, updated |-> uc, err |-> ri.err,
             ins |-> ri.err, insCalls |-> calls, upd |-> "none"]
       ELSE LET ru == executeBulkUpdate(ri.db, ub, envUpd)
                insRes == IF Len(ib) > 0 THEN "ok" ELSE "none"
            IN IF Len(ub) > 0 /\ ru.err # "nil"
               THEN [insertBatch |-> <<>>, updateBatch |-> ub, db |-> ru.db,
                     inserted |-> ic + Len(ib), updated |-> uc, err |-> ru.err,
                     ins |-> insRes, insCalls |-> calls, upd |-> ru.err]
               ELSE [insertBatch |-> <<>>, updateBatch |-> <<>>, db |-> ru.db,
                     inserted |-> ic + Len(ib), updated |-> uc + Len(ub),
                     err |-> "nil", ins |-> insRes, insCalls |-> calls,
                     upd |-> IF Len(ub) > 0 THEN "ok" ELSE "none"]

(***************************************************************************)
(* Inputs: the rows the Firebird cursor yields (WHERE e.STATUS = 'A'; the  *)
(* id is the primary key of the three joined tables, so ids are unique)    *)
(* and the content of the target table when the run starts.                *)
(***************************************************************************)
\* row 1 has a cost that is not a whole number of cents (rounds down),
\* row 2 has no cost and no dollar value (LEFT JOIN without a match),
\* row 3 a cost that rounds up
SrcCost(i) ==
    IF i % 3 = 2 THEN NullFloat
    ELSE IF i % 3 = 0 THEN NF(1000 * i + 5) ELSE NF(1000 * i + 4)
SrcRow(i) ==
    [IDEstoque |-> i, Descricao |-> "A", QtdAtual |-> 1000 * i,
     PrcCusto |-> SrcCost(i),
     PrcDolar |-> IF i % 3 = 2 THEN NullFloat ELSE NF(500)]

\* the Firebird tables joined on the id: per id the selected columns and
\* e.STATUS ('A' active, 'I' inactive)
Statuses == {"A", "I"}
FirebirdTables ==
    {[i \in Ids |-> [Status |-> st[i], Row |-> SrcRow(i)]] : st \in [Ids -> Statuses]}
\* (mutant) the query without its WHERE clause
QueryEveryStatus(tbl) == [k \in 1..Len(tbl) |-> tbl[k].Row]
\* SELECT e.ID_ESTOQUE, e.DESCRICAO, p.QTD_ATUAL, e.PRC_CUSTO, i.VALOR ...
\* WHERE e.STATUS = 'A'
FirebirdQuery(tbl) ==
    LET active == SelectSeq(tbl, LAMBDA r : r.Status = "A")
    IN [k \in 1..Len(active) |-> active[k].Row]

\* the row a run writes for source row i
Synced(i) ==
    LET r == SrcRow(i)
    IN RowOf(Payload("OpInsert", r.IDEstoque, r.Descricao, r.QtdAtual,
                     r.PrcCusto, r.PrcDolar, cfg))
\* what TB_ESTOQUE may hold for id i before the run:
\*   "synced" the row a previous run wrote,
\*   "raw"    the same with the cost stored unrounded,
\*   "stale"  another quantity,
\*   "legacy" a NULL description
TargetKinds == {"absent", "synced", "raw", "stale", "legacy"}
TargetRow(i, kind) ==
    CASE kind = "synced" -> Synced(i)
      [] kind = "raw"    -> [Synced(i) EXCEPT !.ValorCusto = SrcRow(i).PrcCusto]
      [] kind = "stale"  -> [Synced(i) EXCEPT !.Quantidade = NF(1000 * i + 500)]
      [] OTHER           -> [Synced(i) EXCEPT !.Descricao = NullStr]
KindsOf(i) ==
    IF i % 3 = 1 THEN {"absent", "synced", "stale"}
    ELSE IF i % 3 = 2 THEN {"absent", "legacy"}
    ELSE {"absent", "raw"}
TargetOf(kinds) ==
    [i \in {j \in Ids : kinds[j] # "absent"} |-> TargetRow(i, kinds[i])]
Targets == {TargetOf(kinds) : kinds \in {f \in [Ids -> TargetKinds] : \A i \in Ids : f[i] \in KindsOf(i)}}

(***************************************************************************)
(* State.                                                                  *)
(***************************************************************************)
VARIABLES
    pc,               \* where the calling goroutine is (runProcessing / ProcessRows)
    run,              \* number of the current run of ProcessRows
    firebird,         \* the joined Firebird tables, one row per ID_ESTOQUE
    source,           \* rows of the Firebird result set
    next,             \* cursor: index of the row rows.Next() yields next
    target,           \* TB_ESTOQUE in MySQL
    existingRecords,  \* the snapshot loaded by loadMySQLRecords
    workChan,         \* buffered channel of RowOperation
    closed,           \* close(workChan) was called
    wpc,              \* per worker: "idle" (not started), "run", "done"
    insertBatch,      \* per worker
    updateBatch,      \* per worker
    insertedCount, updatedCount, ignoredCount,   \* the atomic counters
    rowCount,         \* rows sent on the channel
    rowsErr,          \* what rows.Err() returns after the loop
    ctxDone,          \* the context passed to ProcessRows is cancelled
    ret,              \* what ProcessRows returned
    uniqueChecks, foreignKeyChecks,   \* session variables of the target
    checksDisabled,   \* runProcessing turned both session checks off
    procCalls,        \* stored routines called, in order, with their results
    sent,             \* history: operations enqueued in this run
    skipped,          \* history: ids of the rows whose Scan failed
    dropped,          \* history: operations a worker dropped on cancellation
    failedOps,        \* history: ids of the operations of a batch whose write failed
    lastFlush,        \* history: the bulk writes of the latest flushBatches
    received,         \* history: number of operations workers took from the channel
    applied,          \* history: per id, how often a successful bulk write held it
    prev,             \* history: how the previous run went
    devMode,          \* cfg.DevMode, fixed for the whole run
    args,             \* arguments of the pure function under analysis
    result,           \* what that function returned (<<>> before the call)
    batchInsert,      \* legacy ProcessRows: the shared insert batch
    batchUpdate,      \* legacy ProcessRows: the shared update batch
    goroutines,       \* legacy ProcessRows: rows whose goroutine has not finished
    tx                \* legacy ProcessRows: the transaction and what it executed

vars == <<pc, run, firebird, source, next, target, existingRecords, workChan, closed, wpc,
          insertBatch, updateBatch, insertedCount, updatedCount, ignoredCount,
          rowCount, rowsErr, ctxDone, ret, uniqueChecks, foreignKeyChecks,
          checksDisabled, procCalls, sent, skipped, dropped, failedOps,
          lastFlush, received, applied, prev, devMode, args, result,
          batchInsert, batchUpdate, goroutines, tx>>

dbVars == <<target>>
chanVars == <<workChan, closed>>
workerVars == <<wpc, insertBatch, updateBatch>>
counterVars == <<insertedCount, updatedCount, ignoredCount>>
sessionVars == <<uniqueChecks, foreignKeyChecks, checksDisabled>>
histVars == <<sent, skipped, dropped, failedOps, lastFlush, received, applied, prev>>
legacyVars == <<batchInsert, batchUpdate, goroutines, tx>>
auxVars == <<devMode, args, result, legacyVars>>
\* no transaction was begun
NoTx == [state |-> "none", ops |-> <<>>]
\* the legacy ProcessRows is not running
NoLegacy == batchInsert = <<>> /\ batchUpdate = <<>> /\ goroutines = {} /\ tx = NoTx

\* make(chan RowOperation, batchSize*2)
ChanCap == queueBatchSize * 2

NoRet == [err |-> "pending", inserted |-> 0, updated |-> 0, ignored |-> 0,
          batchSize |-> 0, totalRows |-> 0]
\* return 0, 0, 0, 0, nil, err
ErrRet(e) == [err |-> e, inserted |-> 0, updated |-> 0, ignored |-> 0,
              batchSize |-> 0, totalRows |-> 0]
\* the batch size a worker flushes at (const batchSize in worker)
workerBatchSize(w) == batchSize
NoFlush == [w |-> 0, ins |-> "none", insOps |-> <<>>, insCalls |-> 0,
            upd |-> "none", updOps |-> <<>>, limit |-> batchSize]
NoPrev == [complete |-> FALSE, noFailedBatch |-> FALSE, ok |-> FALSE,
           written |-> 0]

\* the state in which ProcessRows is entered
EnterProcessRows ==
    /\ next = 1
    /\ existingRecords = <<>>
    /\ workChan = <<>>
    /\ closed = FALSE
    /\ wpc = [w \in Workers |-> "idle"]
    /\ insertBatch = [w \in Workers |-> <<>>]
    /\ updateBatch = [w \in Workers |-> <<>>]
    /\ insertedCount = 0 /\ updatedCount = 0 /\ ignoredCount = 0
    /\ rowCount = 0
    /\ rowsErr = "nil"
    /\ ctxDone = FALSE
    /\ ret = NoRet
    /\ procCalls = <<>>
    /\ sent = <<>>
    /\ skipped = {}
    /\ dropped = 0
    /\ failedOps = {}
    /\ lastFlush = NoFlush
    /\ received = 0
    /\ applied = [i \in Ids |-> 0]

Inputs ==
    /\ firebird \in FirebirdTables
    /\ source = FirebirdQuery(firebird)
    /\ target \in Targets
    /\ run = 1
    /\ prev = NoPrev
    /\ devMode = FALSE
    /\ args = <<>>
    /\ result = <<>>
    /\ NoLegacy

\* ProcessRows called by any caller, with a context that may be cancelled
Init ==
    /\ Inputs
    /\ EnterProcessRows
    /\ pc = "pr_load"
    /\ uniqueChecks = 1 /\ foreignKeyChecks = 1 /\ checksDisabled = FALSE


(***************************************************************************)
(* ProcessRows, the calling goroutine.                                     *)
(***************************************************************************)
\* loadMySQLRecords: every row with a non-NULL id, or an error
loadMySQLRecords(db, ok) ==
    IF ok THEN [records |-> db, err |-> "nil"]
    ELSE [records |-> <<>>, err |-> "load"]

\* (mutant) the error of loadMySQLRecords is recorded but the function goes on
LoadRecordsGoesOn ==
    /\ pc = "pr_load"
    /\ \E ok \in BOOLEAN :
         LET r == loadMySQLRecords(target, ok)
         IN /\ ret' = IF r.err # "nil" THEN ErrRet(r.err) ELSE ret
            /\ existingRecords' = r.records
            /\ pc' = "pr_query"
    /\ UNCHANGED <<run, firebird, source, auxVars, next, target, chanVars, workerVars, counterVars,
                   rowCount, rowsErr, ctxDone, sessionVars, procCalls, histVars>>

LoadRecords ==
    /\ pc = "pr_load"
    /\ \E ok \in BOOLEAN :
         LET r == loadMySQLRecords(target, ok)
         IN IF r.err # "nil"
            THEN /\ ret' = ErrRet(r.err)
                 /\ pc' = "pr_ret"
                 /\ UNCHANGED existingRecords
            ELSE /\ existingRecords' = r.records
                 /\ pc' = "pr_query"
                 /\ UNCHANGED ret
    /\ UNCHANGED <<run, firebird, source, auxVars, next, target, chanVars, workerVars, counterVars,
                   rowCount, rowsErr, ctxDone, sessionVars, procCalls, histVars>>

\* firebirdDB.QueryContext(ctx, query), then the channel, the counters and
\* the workers are created
QueryAndStart ==
    /\ pc = "pr_query"
    /\ \E ok \in BOOLEAN :
         IF ok /\ ~ctxDone
         THEN /\ wpc' = [w \in Workers |-> "run"]
              /\ pc' = "pr_feed"
              /\ UNCHANGED ret
         ELSE /\ ret' = ErrRet(IF ctxDone THEN "ctx" ELSE "query")
              /\ pc' = "pr_ret"
              /\ UNCHANGED wpc
    /\ UNCHANGED <<run, firebird, source, auxVars, next, target, existingRecords, chanVars,
                   insertBatch, updateBatch, counterVars, rowCount, rowsErr,
                   ctxDone, sessionVars, procCalls, histVars>>

\* (mutant) the row that failed to scan is counted in stats.TotalRows
ScanErrorCounted(r) ==
    /\ next' = next + 1
    /\ skipped' = skipped \cup {r.IDEstoque}
    /\ rowCount' = rowCount + 1
    /\ UNCHANGED <<pc, workChan, closed, ret, sent>>

\* if err := rows.Scan(...); err != nil: log the error and continue
ScanError(r) ==
    /\ next' = next + 1
    /\ skipped' = skipped \cup {r.IDEstoque}
    /\ UNCHANGED <<pc, workChan, closed, rowCount, ret, sent>>

\* one iteration of "for rows.Next()": Scan, processRowOptimized, and the
\* select between the send and ctx.Done()
FeedRow ==
    /\ pc = "pr_feed"
    /\ next <= Len(source)
    /\ LET r == source[next]
           op == processRowOptimized(existingRecords, r.IDEstoque, r.Descricao,
                                     r.QtdAtual, r.PrcCusto, r.PrcDolar, cfg)
       IN \/ \* rows.Scan fails: log and continue
             ScanError(r)
          \/ \* case workChan <- op
             /\ Len(workChan) < ChanCap
             /\ workChan' = Append(workChan, op)
             /\ rowCount' = rowCount + 1
             /\ next' = next + 1
             /\ sent' = Append(sent, op)
             /\ UNCHANGED <<pc, closed, ret, skipped>>
          \/ \* case <-ctx.Done(): close(workChan); return ctx.Err()
             /\ ctxDone
             /\ closed' = TRUE
             /\ ret' = ErrRet("ctx")
             /\ pc' = "pr_ret"
             /\ UNCHANGED <<workChan, rowCount, next, sent, skipped>>
    /\ UNCHANGED <<run, firebird, source, auxVars, target, existingRecords, workerVars, counterVars,
                   rowsErr, ctxDone, sessionVars, procCalls, dropped, failedOps,
                   lastFlush, received, applied, prev, devMode, args, result>>

\* rows.Next() returns false: the result set is exhausted (rows.Err() is nil
\* from then on), the stream failed, or the cancelled context closed the
\* rows; then close(workChan)
FeedEnd ==
    /\ pc = "pr_feed"
    /\ \E e \in {"nil", "rows", "ctx"} :
         /\ e = "nil" => next > Len(source)
         /\ e = "rows" => next <= Len(source)
         /\ e = "ctx" => ctxDone
         /\ rowsErr' = e
    /\ closed' = TRUE
    /\ pc' = "pr_wait"
    /\ UNCHANGED <<run, firebird, source, auxVars, next, target, existingRecords, workChan,
                   workerVars, counterVars, rowCount, ctxDone, ret, sessionVars,
                   procCalls, histVars>>

\* wg.Wait(), then rows.Err()
Wait ==
    /\ pc = "pr_wait"
    /\ \A w \in Workers : wpc[w] = "done"
    /\ IF rowsErr # "nil"
       THEN /\ ret' = ErrRet(rowsErr)
            /\ pc' = "pr_ret"
       ELSE /\ pc' = "pr_post"
            /\ UNCHANGED ret
    /\ UNCHANGED <<run, firebird, source, auxVars, next, target, existingRecords, chanVars,
                   workerVars, counterVars, rowCount, rowsErr, ctxDone,
                   sessionVars, procCalls, histVars>>

\* db.Exec("CALL <name>()") and whether it returned without error
Call(name, ok) == [name |-> name, ok |-> ok]

\* (mutant) the second routine is called whatever the first returned
runPostProcessingBothAlways(failAt) ==
    [calls |-> <<Call("UpdateQtdVirtual", failAt # 1),
                 Call("SP_ATUALIZAR_PART_NUMBER", failAt # 2)>>,
     err |-> IF failAt = 0 THEN "nil" ELSE "post"]

\* runPostProcessing: the two stored routines, the second only after the
\* first succeeded; failAt is the call that fails (0: none)
runPostProcessing(failAt) ==
    IF failAt = 1 THEN [calls |-> <<Call("UpdateQtdVirtual", FALSE)>>, err |-> "post"]
    ELSE IF failAt = 2
         THEN [calls |-> <<Call("UpdateQtdVirtual", TRUE),
                           Call("SP_ATUALIZAR_PART_NUMBER", FALSE)>>, err |-> "post"]
         ELSE [calls |-> <<Call("UpdateQtdVirtual", TRUE),
                           Call("SP_ATUALIZAR_PART_NUMBER", TRUE)>>, err |-> "nil"]

PostProcess ==
    /\ pc = "pr_post"
    /\ \E failAt \in 0..2 :
         LET r == runPostProcessing(failAt)
         IN /\ procCalls' = r.calls
            /\ ret' = IF r.err # "nil" THEN ErrRet(r.err)
                      ELSE [err |-> "nil", inserted |-> insertedCount,
                            updated |-> updatedCount, ignored |-> ignoredCount,
                            batchSize |-> batchSize, totalRows |-> rowCount]
    /\ pc' = "pr_ret"
    /\ UNCHANGED <<run, firebird, source, auxVars, next, target, existingRecords, chanVars,
                   workerVars, counterVars, rowCount, rowsErr, ctxDone,
                   sessionVars, histVars>>

\* the caller cancels the context
Cancel ==
    /\ pc \in {"pr_query", "pr_feed", "pr_wait"}
    /\ ~ctxDone
    /\ ctxDone' = TRUE
    /\ UNCHANGED <<pc, run, firebird, source, auxVars, next, target, existingRecords, chanVars,
                   workerVars, counterVars, rowCount, rowsErr, ret, sessionVars,
                   procCalls, histVars>>


(***************************************************************************)
(* worker.                                                                 *)
(***************************************************************************)
\* the ids of the batches a flush tried to write and could not
FailedIn(f, ib, ub) ==
    (IF f.ins \notin {"ok", "none"} THEN IdsOf(ib) ELSE {})
        \cup (IF f.upd \notin {"ok", "none"} THEN IdsOf(ub) ELSE {})

\* (mutant) a flush writes the new content of the target through to the
\* snapshot
snapshotWrittenThrough(db) == db

\* the workers are not handed existingRecords: whatever they write to the
\* target db, the snapshot stays as loaded
snapshotAfterFlush(db) == existingRecords

\* the effect of one call of flushBatches by worker w on buffers ib, ub
Flush(w, ib, ub, envIns, envUpd) ==
    LET f == flushBatches(ib, ub, target, insertedCount, updatedCount, envIns, envUpd)
    IN /\ insertBatch' = [insertBatch EXCEPT ![w] = f.insertBatch]
       /\ updateBatch' = [updateBatch EXCEPT ![w] = f.updateBatch]
       /\ target' = f.db
       /\ existingRecords' = snapshotAfterFlush(f.db)
       /\ insertedCount' = f.inserted
       /\ updatedCount' = f.updated
       /\ failedOps' = failedOps \cup FailedIn(f, ib, ub)
       /\ applied' = [i \in Ids |-> applied[i]
                        + (IF f.ins = "ok" /\ i \in IdsOf(ib) THEN 1 ELSE 0)
                        + (IF f.upd = "ok" /\ i \in IdsOf(ub) THEN 1 ELSE 0)]
       /\ lastFlush' = [w |-> w, ins |-> f.ins,
                        insOps |-> IF f.ins = "none" THEN <<>> ELSE ib,
                        insCalls |-> f.insCalls,
                        upd |-> f.upd,
                        updOps |-> IF f.upd = "none" THEN <<>> ELSE ub,
                        limit |-> workerBatchSize(w)]

\* (mutant) the worker returns without calling wg.Done()
wgDoneMissing(w) == wpc

\* defer wg.Done(): the worker is gone
wgDone(w) == [wpc EXCEPT ![w] = "done"]

\* (mutant) a worker that sees the cancellation flushes its buffers first
workerCancelledFlushes(w) ==
    /\ wpc' = wgDone(w)
    /\ dropped' = dropped + 1
    /\ \E envIns \in InsertOutcomes :
          \E envUpd \in UpdateOutcomes(updateBatch[w]) :
             Flush(w, insertBatch[w], updateBatch[w], envIns, envUpd)
    /\ UNCHANGED ignoredCount

\* case <-ctx.Done(): return -- no flush, and the operation just received
\* and the buffers are given up
workerCancelled(w) ==
    /\ wpc' = wgDone(w)
    /\ dropped' = dropped + 1 + Len(insertBatch[w]) + Len(updateBatch[w])
    /\ UNCHANGED <<insertBatch, updateBatch, target, existingRecords, counterVars,
                   failedOps, lastFlush, applied>>

\* one iteration of "for op := range workChan"
WorkerRecv(w) ==
    /\ wpc[w] = "run"
    /\ Len(workChan) > 0
    /\ LET op == Head(workChan)
       IN /\ workChan' = Tail(workChan)
          /\ received' = received + 1
          /\ IF ctxDone
             THEN workerCancelled(w)
             ELSE /\ UNCHANGED <<wpc, dropped>>
                  /\ CASE op.Type = "OpInsert" ->
                            LET ib == Append(insertBatch[w], op)
                            IN IF Len(ib) >= workerBatchSize(w)
                               THEN /\ \E envIns \in InsertOutcomes :
                                       \E envUpd \in UpdateOutcomes(updateBatch[w]) :
                                          Flush(w, ib, updateBatch[w], envIns, envUpd)
                                    /\ UNCHANGED ignoredCount
                               ELSE /\ insertBatch' = [insertBatch EXCEPT ![w] = ib]
                                    /\ UNCHANGED <<updateBatch, target, existingRecords,
                                                   counterVars, failedOps, lastFlush,
                                                   applied>>
                       [] op.Type = "OpUpdate" ->
                            LET ub == Append(updateBatch[w], op)
                            IN IF Len(ub) >= workerBatchSize(w)
                               THEN /\ \E envIns \in InsertOutcomes :
                                       \E envUpd \in UpdateOutcomes(ub) :
                                          Flush(w, insertBatch[w], ub, envIns, envUpd)
                                    /\ UNCHANGED ignoredCount
                               ELSE /\ updateBatch' = [updateBatch EXCEPT ![w] = ub]
                                    /\ UNCHANGED <<insertBatch, target, existingRecords,
                                                   counterVars, failedOps, lastFlush,
                                                   applied>>
                       [] OTHER ->
                            /\ ignoredCount' = ignoredCount + 1
                            /\ UNCHANGED <<insertBatch, updateBatch, target,
                                           existingRecords, insertedCount,
                                           updatedCount, failedOps, lastFlush, applied>>
    /\ UNCHANGED <<pc, run, firebird, source, auxVars, next, closed, rowCount,
                   rowsErr, ctxDone, ret, sessionVars, procCalls, sent, skipped,
                   prev>>

\* the channel is closed and drained: the final flushBatches, then wg.Done()
WorkerExit(w) ==
    /\ wpc[w] = "run"
    /\ closed
    /\ Len(workChan) = 0
    /\ \E envIns \in InsertOutcomes :
          \E envUpd \in UpdateOutcomes(updateBatch[w]) :
             Flush(w, insertBatch[w], updateBatch[w], envIns, envUpd)
    /\ wpc' = wgDone(w)
    /\ UNCHANGED <<pc, run, firebird, source, auxVars, next, chanVars, ignoredCount,
                   rowCount, rowsErr, ctxDone, ret, sessionVars, procCalls, sent,
                   skipped, dropped, received, prev>>

\* the steps of ProcessRows and of its workers
ProcessRowsStep ==
    \/ LoadRecords
    \/ QueryAndStart
    \/ FeedRow
    \/ FeedEnd
    \/ Wait
    \/ PostProcess
    \/ \E w \in Workers : WorkerRecv(w)
    \/ \E w \in Workers : WorkerExit(w)

Next ==
    \/ ProcessRowsStep
    \/ Cancel

Spec == Init /\ [][Next]_vars

\* the calling goroutine and each worker goroutine keep being scheduled, and
\* every database call returns
Producer ==
    \/ LoadRecords
    \/ QueryAndStart
    \/ FeedRow
    \/ FeedEnd
    \/ Wait
    \/ PostProcess
WorkerStep(w) == WorkerRecv(w) \/ WorkerExit(w)
Fairness ==
    /\ WF_vars(Producer)
    /\ \A w \in Workers : WF_vars(WorkerStep(w))

SpecLive == Init /\ [][Next]_vars /\ Fairness

(***************************************************************************)
(* ProcessRows of the build with a development mode: the same function,    *)
(* whose runPostProcessing is handed the configuration.                    *)
(***************************************************************************)
\* (mutant) the stored routines are called in development mode too
runPostProcessingDevIgnored(dev, failAt) == runPostProcessing(failAt)

\* runPostProcessing(db, stats, cfg): if cfg.DevMode { return nil }, and the
\* two stored routines otherwise
runPostProcessingDev(dev, failAt) ==
    IF dev THEN [calls |-> <<>>, err |-> "nil"]
    ELSE runPostProcessing(failAt)

PostProcessDev ==
    /\ pc = "pr_post"
    /\ \E failAt \in 0..2 :
         LET r == runPostProcessingDev(devMode, failAt)
         IN /\ procCalls' = r.calls
            /\ ret' = IF r.err # "nil" THEN ErrRet(r.err)
                      ELSE [err |-> "nil", inserted |-> insertedCount,
                            updated |-> updatedCount, ignored |-> ignoredCount,
                            batchSize |-> batchSize, totalRows |-> rowCount]
    /\ pc' = "pr_ret"
    /\ UNCHANGED <<run, firebird, source, auxVars, next, target, existingRecords,
                   chanVars, workerVars, counterVars, rowCount, rowsErr, ctxDone,
                   sessionVars, histVars>>

\* LoadConfig: DEV_MODE is set or not
InitDev ==
    /\ firebird \in FirebirdTables
    /\ source = FirebirdQuery(firebird)
    /\ target \in Targets
    /\ run = 1
    /\ prev = NoPrev
    /\ devMode \in BOOLEAN
    /\ args = <<>>
    /\ result = <<>>
    /\ NoLegacy
    /\ EnterProcessRows
    /\ pc = "pr_load"
    /\ uniqueChecks = 1 /\ foreignKeyChecks = 1 /\ checksDisabled = FALSE

NextDev ==
    \/ LoadRecords
    \/ QueryAndStart
    \/ FeedRow
    \/ FeedEnd
    \/ Wait
    \/ PostProcessDev
    \/ \E w \in Workers : WorkerRecv(w)
    \/ \E w \in Workers : WorkerExit(w)
    \/ Cancel

SpecDev == InitDev /\ [][NextDev]_vars

(***************************************************************************)
(* runProcessing (main_helpers.go): session tunings around ProcessRows,    *)
(* called with context.Background(), which is never cancelled.             *)
(***************************************************************************)
\* mysqlConn.Exec("SET <variable>=<value>"): an error is only logged
SetSession(current, value, ok) == IF ok THEN value ELSE current

InitRun ==
    /\ Inputs
    /\ EnterProcessRows
    /\ pc = "rp_start"
    /\ uniqueChecks = 1 /\ foreignKeyChecks = 1 /\ checksDisabled = FALSE

\* connect to both databases, SET unique_checks=0, SET foreign_key_checks=0
SetChecksOff ==
    /\ pc = "rp_start"
    /\ \E connected \in BOOLEAN :
         IF ~connected
         THEN /\ pc' = "rp_done"
              /\ ret' = ErrRet("connect")
              /\ UNCHANGED sessionVars
         ELSE /\ \E ok1, ok2 \in BOOLEAN :
                   /\ uniqueChecks' = SetSession(uniqueChecks, 0, ok1)
                   /\ foreignKeyChecks' = SetSession(foreignKeyChecks, 0, ok2)
                   /\ checksDisabled' = (ok1 /\ ok2)
              /\ pc' = "pr_load"
              /\ UNCHANGED ret
    /\ UNCHANGED <<run, firebird, source, auxVars, next, target, existingRecords, chanVars,
                   workerVars, counterVars, rowCount, rowsErr, ctxDone,
                   procCalls, histVars>>

\* after ProcessRows: return its error at once, or restore the two session
\* variables and return
runProcessingReturn(err, uc, fk, ok1, ok2) ==
    IF err # "nil"
    THEN [uniqueChecks |-> uc, foreignKeyChecks |-> fk]
    ELSE [uniqueChecks |-> SetSession(uc, 1, ok1),
          foreignKeyChecks |-> SetSession(fk, 1, ok2)]

RunReturn ==
    /\ pc = "pr_ret"
    /\ \E ok1, ok2 \in BOOLEAN :
         LET r == runProcessingReturn(ret.err, uniqueChecks, foreignKeyChecks, ok1, ok2)
         IN /\ uniqueChecks' = r.uniqueChecks
            /\ foreignKeyChecks' = r.foreignKeyChecks
    /\ pc' = "rp_done"
    /\ UNCHANGED <<run, firebird, source, auxVars, next, target, existingRecords, chanVars,
                   workerVars, counterVars, rowCount, rowsErr, ctxDone, ret,
                   checksDisabled, procCalls, histVars>>

NextRun ==
    \/ SetChecksOff
    \/ ProcessRowsStep
    \/ RunReturn

SpecRun == InitRun /\ [][NextRun]_vars

(***************************************************************************)
(* Two consecutive runs of ProcessRows over the same source.               *)
(***************************************************************************)
\* every row was scanned and enqueued, and every Insert and Update of the
\* run is in the target
RunComplete ==
    /\ rowCount = Len(source)
    /\ \A k \in 1..Len(sent) :
         sent[k].Type # "OpIgnore" =>
            /\ sent[k].IDEstoque \in DOMAIN target
            /\ target[sent[k].IDEstoque] = RowOf(sent[k])

\* ProcessRows has returned and its workers are gone: it is called again,
\* with a fresh context
SecondRun ==
    /\ pc = "pr_ret"
    /\ run < MaxRuns
    /\ \A w \in Workers : wpc[w] # "run"
    /\ run' = run + 1
    /\ prev' = [complete |-> RunComplete, noFailedBatch |-> (failedOps = {}),
                ok |-> (ret.err = "nil"),
                written |-> insertedCount + updatedCount]
    /\ pc' = "pr_load"
    /\ next' = 1
    /\ existingRecords' = <<>>
    /\ workChan' = <<>>
    /\ closed' = FALSE
    /\ wpc' = [w \in Workers |-> "idle"]
    /\ insertBatch' = [w \in Workers |-> <<>>]
    /\ updateBatch' = [w \in Workers |-> <<>>]
    /\ insertedCount' = 0 /\ updatedCount' = 0 /\ ignoredCount' = 0
    /\ rowCount' = 0
    /\ rowsErr' = "nil"
    /\ ctxDone' = FALSE
    /\ ret' = NoRet
    /\ procCalls' = <<>>
    /\ sent' = <<>>
    /\ skipped' = {}
    /\ dropped' = 0
    /\ failedOps' = {}
    /\ lastFlush' = NoFlush
    /\ received' = 0
    /\ applied' = [i \in Ids |-> 0]
    /\ UNCHANGED <<firebird, source, auxVars, target, sessionVars>>

NextTwoRuns ==
    \/ ProcessRowsStep
    \/ Cancel
    \/ SecondRun

SpecTwoRuns == Init /\ [][NextTwoRuns]_vars


(***************************************************************************)
(* The classifier on its own: processRowOptimized applied to one source    *)
(* row and a snapshot that holds any row, or none, under the row's id.     *)
(***************************************************************************)
NullOr(S) == {NullFloat} \cup {NF(x) : x \in S}

\* source rows of id 1: cost missing, zero, 1.004 and 1.005
ClassifySources ==
    {[IDEstoque |-> 1, Descricao |-> "A", QtdAtual |-> 1000, PrcCusto |-> c,
      PrcDolar |-> d] : c \in NullOr({0, 1004, 1005}), d \in NullOr({500})}

\* snapshot rows: every column NULL, zero, equal to what a run writes for
\* one of the sources, or off by less than a cent
ClassifyRecords ==
    [Descricao : {NullStr, NS("A"), NS("B")},
     Quantidade : NullOr({1000, 1004}),
     ValorCusto : NullOr({0, 1000, 1004, 1010}),
     ValorUsd : NullOr({0, 500}),
     PrcVenda : NullOr({0, 4, 1410}),
     Prc3x : NullOr({0, 490}),
     Prc6x : NullOr({0, 260}),
     Prc10x : NullOr({0, 160})]

InitClassify ==
    /\ pc = "classify"
    /\ run = 1 /\ prev = NoPrev
    /\ devMode = FALSE /\ args = <<>> /\ result = <<>> /\ NoLegacy
    /\ \E src \in ClassifySources :
          /\ firebird = <<[Status |-> "A", Row |-> src]>>
          /\ source = FirebirdQuery(firebird)
    /\ target \in {<<>>} \cup {<<rec>> : rec \in ClassifyRecords}
    /\ existingRecords = target
    /\ next = 1
    /\ workChan = <<>> /\ closed = FALSE
    /\ wpc = [w \in Workers |-> "idle"]
    /\ insertBatch = [w \in Workers |-> <<>>]
    /\ updateBatch = [w \in Workers |-> <<>>]
    /\ insertedCount = 0 /\ updatedCount = 0 /\ ignoredCount = 0
    /\ rowCount = 0 /\ rowsErr = "nil" /\ ctxDone = FALSE /\ ret = NoRet
    /\ uniqueChecks = 1 /\ foreignKeyChecks = 1 /\ checksDisabled = FALSE
    /\ procCalls = <<>> /\ sent = <<>> /\ skipped = {} /\ dropped = 0
    /\ failedOps = {} /\ lastFlush = NoFlush /\ received = 0
    /\ applied = [i \in Ids |-> 0]

\* op := processRowOptimized(existingRecords, idEstoque, descricao, ...)
ClassifyRow ==
    /\ pc = "classify"
    /\ LET r == source[1]
       IN sent' = <<processRowOptimized(existingRecords, r.IDEstoque, r.Descricao,
                                       r.QtdAtual, r.PrcCusto, r.PrcDolar, cfg)>>
    /\ pc' = "classified"
    /\ UNCHANGED <<run, firebird, source, auxVars, next, target, existingRecords, chanVars,
                   workerVars, counterVars, rowCount, rowsErr, ctxDone, ret,
                   sessionVars, procCalls, skipped, dropped, failedOps, lastFlush,
                   received, applied, prev>>

NextClassify == ClassifyRow

SpecClassify == InitClassify /\ [][NextClassify]_vars


(***************************************************************************)
(* Helper functions analysed on their own: one call from given arguments.  *)
(* Strings are sequences of characters.                                    *)
(***************************************************************************)
\* no ProcessRows is running
NoRun ==
    /\ run = 1 /\ prev = NoPrev /\ devMode = FALSE /\ NoLegacy
    /\ firebird = <<>> /\ source = <<>> /\ target = <<>>
    /\ EnterProcessRows
    /\ uniqueChecks = 1 /\ foreignKeyChecks = 1 /\ checksDisabled = FALSE

\* the function under analysis returns
Return(from, to, value) ==
    /\ pc = from
    /\ result' = value
    /\ pc' = to
    /\ UNCHANGED <<run, firebird, source, devMode, args, legacyVars, next, target,
                   existingRecords, chanVars, workerVars, counterVars, rowCount, rowsErr, ctxDone,
                   ret, sessionVars, procCalls, histVars>>

DigitVal == [c \in {"0", "1", "2", "3", "4", "5", "6", "7", "8", "9"} |->
               CASE c = "0" -> 0 [] c = "1" -> 1 [] c = "2" -> 2 [] c = "3" -> 3
                 [] c = "4" -> 4 [] c = "5" -> 5 [] c = "6" -> 6 [] c = "7" -> 7
                 [] c = "8" -> 8 [] OTHER -> 9]
IsDigit(c) == c \in DOMAIN DigitVal

\* the number a sequence of decimal digits denotes
RECURSIVE Num(_)
Num(ds) ==
    IF ds = <<>> THEN 0
    ELSE Num(SubSeq(ds, 1, Len(ds) - 1)) * 10 + DigitVal[ds[Len(ds)]]

(***************************************************************************)
(* config.LoadConfig: the four pricing percentages, in thousandths.        *)
(***************************************************************************)
\* strconv.ParseFloat(s, 64) of an optional sign, digits and at most one
\* decimal point with up to three decimals: the value, 0 with a syntax error
ParseFloat(s) ==
    LET signed == s # <<>> /\ s[1] \in {"+", "-"}
        body == IF signed THEN Tail(s) ELSE s
        dots == {i \in 1..Len(body) : body[i] = "."}
        wellFormed == /\ \A i \in 1..Len(body) : IsDigit(body[i]) \/ body[i] = "."
                      /\ Cardinality(dots) <= 1
                      /\ \E i \in 1..Len(body) : IsDigit(body[i])
        dot == IF dots = {} THEN Len(body) + 1 ELSE CHOOSE i \in dots : TRUE
        whole == SubSeq(body, 1, dot - 1)
        frac == SubSeq(body, dot + 1, Len(body))
        padded == SubSeq(frac \o <<"0", "0", "0">>, 1, 3)
        magnitude == Num(whole) * 1000 + Num(padded)
    IN IF wellFormed
       THEN [val |-> IF s[1] = "-" THEN 0 - magnitude ELSE magnitude, err |-> "nil"]
       ELSE [val |-> 0, err |-> "syntax"]

\* lucro, _ := strconv.ParseFloat(os.Getenv("LUCRO"), 64);
\* if lucro == 0 { lucro = 40.00 }
percentage(setting, default) ==
    LET parsed == ParseFloat(setting).val
    IN IF parsed = 0 THEN default * 1000 ELSE parsed

\* os.Getenv of the four settings: unset (the empty string), not a number,
\* zero, and numbers
Settings == {<<>>, <<"a", "b", "c">>, <<"0">>, <<"0", ".", "0">>, <<"2", "5">>,
             <<"4", "0">>, <<"7", ".", "5">>, <<"-", "5">>}
SettingNames == {"LUCRO", "PARC3X", "PARC6X", "PARC10X"}
DefaultOf == [n \in SettingNames |->
                CASE n = "LUCRO" -> Lucro [] n = "PARC3X" -> Parc3x
                  [] n = "PARC6X" -> Parc6x [] OTHER -> Parc10x]

InitConfig ==
    /\ NoRun
    /\ pc = "cfg_call"
    /\ args \in [SettingNames -> Settings]
    /\ result = <<>>

LoadConfig ==
    Return("cfg_call", "cfg_ret",
           [n \in SettingNames |-> percentage(args[n], DefaultOf[n])])

NextConfig == LoadConfig

SpecConfig == InitConfig /\ [][NextConfig]_vars

(***************************************************************************)
(* updater: isNewerVersion.                                                *)
(***************************************************************************)
\* strings.TrimPrefix(s, prefix)
TrimPrefix(s, prefix) ==
    IF Len(s) >= Len(prefix) /\ SubSeq(s, 1, Len(prefix)) = prefix
    THEN SubSeq(s, Len(prefix) + 1, Len(s))
    ELSE s

\* strings.TrimSpace(s)
RECURSIVE TrimSpace(_)
TrimSpace(s) ==
    IF s # <<>> /\ s[1] = " " THEN TrimSpace(Tail(s))
    ELSE IF s # <<>> /\ s[Len(s)] = " " THEN TrimSpace(SubSeq(s, 1, Len(s) - 1))
    ELSE s

\* strings.Split(s, sep) for a separator of one character: the pieces
\* between the separators, one piece (s itself) when there is none
RECURSIVE Split(_, _)
Split(s, sep) ==
    LET at == {i \in 1..Len(s) : s[i] = sep}
    IN IF at = {} THEN <<s>>
       ELSE LET i == CHOOSE j \in at : \A k \in at : j <= k
            IN <<SubSeq(s, 1, i - 1)>> \o Split(SubSeq(s, i + 1, Len(s)), sep)

\* fmt.Sscanf(s, "%d", &n): the digits s starts with; n stays 0 when there
\* is none
Sscanf(s) ==
    LET stop == {i \in 1..Len(s) : ~IsDigit(s[i])}
        upTo == IF stop = {} THEN Len(s)
                ELSE (CHOOSE j \in stop : \A k \in stop : j <= k) - 1
    IN Num(SubSeq(s, 1, upTo))

\* (mutant) the prefix 'v' is kept
normalizeVersionKeepsV(v) == TrimSpace(v)

normalizeVersion(v) == TrimPrefix(TrimSpace(v), <<"v">>)

\* the loop "for i := 0; i < 3; i++" from component i on
RECURSIVE newerFrom(_, _, _)
newerFrom(cParts, rParts, i) ==
    IF i > 3 THEN FALSE
    ELSE LET ci == IF i <= Len(cParts) THEN Sscanf(cParts[i]) ELSE 0
             ri == IF i <= Len(rParts) THEN Sscanf(rParts[i]) ELSE 0
         IN IF ri > ci THEN TRUE
            ELSE IF ri < ci THEN FALSE
            ELSE newerFrom(cParts, rParts, i + 1)

isNewerVersion(current, remote) ==
    IF current = <<>> \/ remote = <<>> THEN FALSE
    ELSE newerFrom(Split(normalizeVersion(current), "."),
                   Split(normalizeVersion(remote), "."), 1)

\* version strings: an optional 'v', up to MaxComponents numbers separated
\* by dots, and some of them inside blanks
MaxComponents == 4
Components == {<<"0">>, <<"1">>, <<"1", "0">>}
RECURSIVE SeqsUpTo(_, _)
SeqsUpTo(S, n) ==
    IF n = 0 THEN {<<>>}
    ELSE LET shorter == SeqsUpTo(S, n - 1)
         IN shorter \cup {Append(q, x) : q \in {r \in shorter : Len(r) = n - 1}, x \in S}
VersionInputs ==
    [blank : {FALSE}, v : BOOLEAN, comps : SeqsUpTo(Components, MaxComponents)]
        \cup [blank : {TRUE}, v : BOOLEAN, comps : SeqsUpTo(Components, 1)]

\* strings.Join(comps, sep)
RECURSIVE Join(_, _)
Join(comps, sep) ==
    IF comps = <<>> THEN <<>>
    ELSE IF Len(comps) = 1 THEN comps[1]
    ELSE comps[1] \o <<sep>> \o Join(Tail(comps), sep)

\* the string of a version input
VersionString(in) ==
    LET plain == (IF in.v THEN <<"v">> ELSE <<>>) \o Join(in.comps, ".")
    IN IF in.blank THEN <<" ">> \o plain \o <<" ">> ELSE plain

InitVersion ==
    /\ NoRun
    /\ pc = "ver_call"
    /\ args \in [current : VersionInputs, remote : VersionInputs]
    /\ result = <<>>

\* isNewerVersion(current, remote)
CheckVersion ==
    Return("ver_call", "ver_ret",
           <<isNewerVersion(VersionString(args.current), VersionString(args.remote))>>)

\* isNewerVersion(remote, current): the same two versions the other way round
CheckVersionBack ==
    Return("ver_ret", "ver_back",
           Append(result, isNewerVersion(VersionString(args.remote),
                                         VersionString(args.current))))

NextVersion ==
    \/ CheckVersion
    \/ CheckVersionBack

SpecVersion == InitVersion /\ [][NextVersion]_vars

(***************************************************************************)
(* updater: parseGithubOwnerRepo.  A URL is a sequence of the pieces       *)
(* "https:", "http:", "/" and names without a slash.                        *)
(***************************************************************************)
\* (mutant) the host is not looked at
parseGithubOwnerRepoAnyHost(u) ==
    LET parts == Split(TrimPrefix(u, <<"https:", "/", "/">>), "/")
    IN IF Len(parts) < 3 THEN [owner |-> <<>>, repo |-> <<>>, ok |-> FALSE]
       ELSE [owner |-> parts[2], repo |-> parts[3], ok |-> TRUE]

parseGithubOwnerRepo(u) ==
    LET parts == Split(TrimPrefix(u, <<"https:", "/", "/">>), "/")
    IN IF Len(parts) < 3 THEN [owner |-> <<>>, repo |-> <<>>, ok |-> FALSE]
       ELSE IF parts[1] # <<"github.com">>
            THEN [owner |-> <<>>, repo |-> <<>>, ok |-> FALSE]
       ELSE [owner |-> parts[2], repo |-> parts[3], ok |-> TRUE]

\* URLs: a scheme or none, then up to MaxSegments segments between slashes
MaxSegments == 4
Schemes == {<<>>, <<"https:", "/", "/">>, <<"http:", "/", "/">>}
Segments == {<<>>, <<"github.com">>, <<"example.com">>, <<"waldirborbajr">>,
             <<"sync">>}
UrlInputs == [scheme : Schemes, segs : SeqsUpTo(Segments, MaxSegments)]
UrlString(in) == in.scheme \o Join(in.segs, "/")

InitGithub ==
    /\ NoRun
    /\ pc = "gh_call"
    /\ args \in UrlInputs
    /\ result = <<>>

ParseUrl == Return("gh_call", "gh_ret", parseGithubOwnerRepo(UrlString(args)))

NextGithub == ParseUrl

SpecGithub == InitGithub /\ [][NextGithub]_vars

(***************************************************************************)
(* Sizing: the connection pool (db.ConnectMySQLOptimized), the number of   *)
(* workers (runProcessing) and the batch size (ProcessRows, worker), from  *)
(* the CPU count and the server variables.  Numbers are not scaled here.   *)
(***************************************************************************)
\* what QueryRow("SHOW VARIABLES LIKE ...").Scan yields: a value or an error
Probed(v) == [ok |-> TRUE, val |-> v]
ProbeFailed == [ok |-> FALSE, val |-> 0]
orDefault(probe, default) == IF probe.ok THEN probe.val ELSE default

\* maxOpenConns := int(float64(maxConnections) * 0.8), at most 200 and at
\* least 50
maxOpenConns(maxConnections) ==
    LET share == (maxConnections * 8) \div 10
    IN IF share > 200 THEN 200
       ELSE IF share < 50 THEN 50
       ELSE share

\* (mutant) no minimum number of workers
numWorkersWithoutMinimum(cpus) ==
    IF cpus * 2 > 20 THEN 20 ELSE cpus * 2

\* numWorkers := runtime.NumCPU() * 2, at most 20 and at least 4
numWorkers(cpus) ==
    IF cpus * 2 > 20 THEN 20
    ELSE IF cpus * 2 < 4 THEN 4
    ELSE cpus * 2

\* batchSize = 500 in ProcessRows and const batchSize = 500 in worker,
\* whatever the server's max_allowed_packet
rowsBatchSize(maxAllowedPacket) == 500
flushThreshold(maxAllowedPacket) == 500

CpuCounts == 1..16
MaxConnectionsProbes ==
    {ProbeFailed} \cup {Probed(v) : v \in {10, 40, 62, 63, 100, 151, 250, 251, 1000}}
MaxPacketProbes ==
    {ProbeFailed} \cup {Probed(v) : v \in {1024, 19999, 20000, 100000, 4194304,
                                           67108864}}

InitSizing ==
    /\ NoRun
    /\ pc = "size_call"
    /\ args \in [cpus : CpuCounts, maxConnections : MaxConnectionsProbes,
                 maxAllowedPacket : MaxPacketProbes]
    /\ result = <<>>

\* db.ConnectMySQLOptimized: probe max_connections, db.SetMaxOpenConns
ConnectMySQLOptimized ==
    Return("size_call", "size_connected",
           [maxOpenConns |-> maxOpenConns(orDefault(args.maxConnections, 200))])

\* runProcessing: probe both variables, choose the number of workers
ChooseWorkers ==
    Return("size_connected", "size_workers",
           [maxOpenConns |-> result.maxOpenConns,
            maxConnections |-> orDefault(args.maxConnections, 200),
            maxAllowedPacket |-> orDefault(args.maxAllowedPacket, 4 * 1024 * 1024),
            numWorkers |-> numWorkers(args.cpus)])

\* ProcessRows: the batch size, and one "go worker(...)" per numWorkers
StartWorkers ==
    Return("size_workers", "size_started",
           [maxOpenConns |-> result.maxOpenConns,
            maxConnections |-> result.maxConnections,
            maxAllowedPacket |-> result.maxAllowedPacket,
            numWorkers |-> result.numWorkers,
            started |-> result.numWorkers,
            batchSize |-> rowsBatchSize(result.maxAllowedPacket),
            workerBatchSize |-> flushThreshold(result.maxAllowedPacket)])

NextSizing ==
    \/ ConnectMySQLOptimized
    \/ ChooseWorkers
    \/ StartWorkers

SpecSizing == InitSizing /\ [][NextSizing]_vars

(***************************************************************************)
(* The legacy ProcessRows: one goroutine per row behind a semaphore, two   *)
(* batches shared under a mutex, and one transaction.                      *)
(***************************************************************************)
semaphoreSize == 2

\* loadMySQLRecordsForID: the row of the snapshot, or an error if it has none
loadMySQLRecordsForID(idEstoque, records) ==
    IF idEstoque \in DOMAIN records
    THEN [rec |-> records[idEstoque], err |-> "nil"]
    ELSE [rec |-> <<>>, err |-> "not found"]

\* processRowForBatch: the action, and its parameters as a RowOperation
processRowForBatch(records, idEstoque, descricao, qtdAtual, prcCusto, prcDolar, c) ==
    IF idEstoque \notin DOMAIN records
    THEN [action |-> "insert",
          params |-> Payload("OpInsert", idEstoque, descricao, qtdAtual, prcCusto, prcDolar, c)]
    ELSE IF UpToDate(records[idEstoque], descricao, qtdAtual, prcCusto, prcDolar, c)
         THEN [action |-> "", params |-> IgnoreOp]
         ELSE [action |-> "update",
               params |-> Payload("OpUpdate", idEstoque, descricao, qtdAtual, prcCusto,
                                  prcDolar, c)]

\* the operations of one kind among ops
OfType(ops, type) == SelectSeq(ops, LAMBDA op : op.Type = type)

\* tx.Commit(): the statements the transaction executed become visible
Commit(db, ops) ==
    LET ins == OfType(ops, "OpInsert")
        upd == OfType(ops, "OpUpdate")
    IN UpdateRows(InsertRows(db, ins, Len(ins)), upd, Len(upd))

InitLegacy ==
    /\ Inputs
    /\ EnterProcessRows
    /\ pc = "lg_load"
    /\ uniqueChecks = 1 /\ foreignKeyChecks = 1 /\ checksDisabled = FALSE

\* loadMySQLRecords, firebirdDB.Query, mysqlDB.Begin
LegacyBegin ==
    /\ pc = "lg_load"
    /\ \E e \in {"nil", "load", "query", "begin"} :
         /\ existingRecords' = IF e = "load" THEN existingRecords ELSE target
         /\ IF e = "nil"
            THEN /\ tx' = [state |-> "open", ops |-> <<>>]
                 /\ pc' = "lg_feed"
                 /\ UNCHANGED ret
            ELSE /\ ret' = ErrRet(e)
                 /\ pc' = "lg_ret"
                 /\ UNCHANGED tx
    /\ UNCHANGED <<run, firebird, source, devMode, args, result, batchInsert, batchUpdate,
                   goroutines, next, target, chanVars, workerVars, counterVars, rowCount,
                   rowsErr, ctxDone, sessionVars, procCalls, histVars>>

\* rows.Next() is true: Scan, then processRowBuffer takes a slot of the
\* semaphore and starts the goroutine of the row
LegacyRow ==
    /\ pc = "lg_feed"
    /\ next <= Len(source)
    /\ \/ \* Scan failed: continue
          /\ skipped' = skipped \cup {source[next].IDEstoque}
          /\ UNCHANGED <<goroutines, rowCount>>
       \/ \* semaphore <- struct{}{}; wg.Add(1); go func(...)
          /\ Cardinality(goroutines) < semaphoreSize
          /\ goroutines' = goroutines \cup {next}
          /\ rowCount' = rowCount + 1
          /\ UNCHANGED skipped
    /\ next' = next + 1
    /\ UNCHANGED <<pc, run, firebird, source, devMode, args, result, batchInsert,
                   batchUpdate, tx, target, existingRecords, chanVars, workerVars,
                   counterVars, rowsErr, ctxDone, ret, sessionVars, procCalls, sent,
                   dropped, failedOps, lastFlush, received, applied, prev>>

\* the goroutine of row i: look the id up, classify, count, append under the
\* mutex, release the semaphore and the wait group
Goroutine(i) ==
    /\ i \in goroutines
    /\ LET r == source[i]
           l == loadMySQLRecordsForID(r.IDEstoque, existingRecords)
           p == processRowForBatch([j \in {r.IDEstoque} |-> l.rec], r.IDEstoque,
                                   r.Descricao, r.QtdAtual, r.PrcCusto, r.PrcDolar, cfg)
       IN IF l.err # "nil"
          THEN UNCHANGED <<batchInsert, batchUpdate, counterVars>>
          ELSE /\ insertedCount' = insertedCount + (IF p.action = "insert" THEN 1 ELSE 0)
               /\ updatedCount' = updatedCount + (IF p.action = "update" THEN 1 ELSE 0)
               /\ ignoredCount' = ignoredCount + (IF p.action = "" THEN 1 ELSE 0)
               /\ batchInsert' = IF p.action = "insert"
                                 THEN Append(batchInsert, p.params) ELSE batchInsert
               /\ batchUpdate' = IF p.action = "update"
                                 THEN Append(batchUpdate, p.params) ELSE batchUpdate
    /\ goroutines' = goroutines \ {i}
    /\ UNCHANGED <<pc, run, firebird, source, devMode, args, result, tx, next, target,
                   existingRecords, chanVars, workerVars, rowCount, rowsErr, ctxDone,
                   ret, sessionVars, procCalls, histVars>>

\* rows.Next() is false (exhausted, or the stream failed): processBatch on
\* what the two batches hold at this moment; its error is only logged.
\* executeBatch runs one Exec per row and stops at the first that fails.
LegacyFinalBatch ==
    /\ pc = "lg_feed"
    /\ \E e \in {"nil", "rows"} :
         /\ e = "nil" => next > Len(source)
         /\ e = "rows" => next <= Len(source)
         /\ rowsErr' = e
    /\ LET all == batchInsert \o batchUpdate
       IN \E failAt \in 0..Len(all) :
            IF failAt = 0
            THEN /\ tx' = [tx EXCEPT !.ops = @ \o all]
                 /\ batchInsert' = <<>>
                 /\ batchUpdate' = <<>>
            ELSE /\ tx' = [tx EXCEPT !.ops = @ \o SubSeq(all, 1, failAt - 1)]
                 /\ UNCHANGED <<batchInsert, batchUpdate>>
    /\ pc' = "lg_commit"
    /\ UNCHANGED <<run, firebird, source, devMode, args, result, goroutines, next, target,
                   existingRecords, chanVars, workerVars, counterVars, rowCount, ctxDone,
                   ret, sessionVars, procCalls, histVars>>

\* rows.Err(), then tx.Commit(); on either error the deferred tx.Rollback()
LegacyCommit ==
    /\ pc = "lg_commit"
    /\ \E e \in {"nil", "commit"} :
         IF rowsErr # "nil" \/ e # "nil"
         THEN /\ ret' = ErrRet(IF rowsErr # "nil" THEN rowsErr ELSE e)
              /\ tx' = [tx EXCEPT !.state = "rolledback"]
              /\ pc' = "lg_ret"
              /\ UNCHANGED target
         ELSE /\ target' = Commit(target, tx.ops)
              /\ tx' = [tx EXCEPT !.state = "committed"]
              /\ pc' = "lg_wait"
              /\ UNCHANGED ret
    /\ UNCHANGED <<run, firebird, source, devMode, args, result, batchInsert, batchUpdate,
                   goroutines, next, existingRecords, chanVars, workerVars, counterVars,
                   rowCount, rowsErr, ctxDone, sessionVars, procCalls, histVars>>

\* wg.Wait(), then CALL UpdateQtdVirtual()
LegacyWait ==
    /\ pc = "lg_wait"
    /\ goroutines = {}
    /\ \E ok \in BOOLEAN :
         /\ procCalls' = Append(procCalls, Call("UpdateQtdVirtual", ok))
         /\ ret' = IF ok
                   THEN [err |-> "nil", inserted |-> insertedCount,
                         updated |-> updatedCount, ignored |-> ignoredCount,
                         batchSize |-> 0, totalRows |-> rowCount]
                   ELSE ErrRet("proc")
    /\ pc' = "lg_ret"
    /\ UNCHANGED <<run, firebird, source, auxVars, next, target, existingRecords, chanVars,
                   workerVars, counterVars, rowCount, rowsErr, ctxDone, sessionVars,
                   histVars>>

NextLegacy ==
    \/ LegacyBegin
    \/ LegacyRow
    \/ \E i \in 1..MaxRows : Goroutine(i)
    \/ LegacyFinalBatch
    \/ LegacyCommit
    \/ LegacyWait

SpecLegacy == InitLegacy /\ [][NextLegacy]_vars

(***************************************************************************)
(* Rounding and prices: roundFloat and calculatePrices as functions of one *)
(* decimal (in thousandths) and a pricing configuration.                   *)
(***************************************************************************)
MaxDecimal == 130

\* small values of either sign, and the cost 100.00
Decimals == (-MaxDecimal..MaxDecimal) \cup {100000}

PricingConfigs ==
    {cfg, [Lucro |-> 33, Parc3x |-> 7, Parc6x |-> 0, Parc10x |-> 25]}

InitPricing ==
    /\ NoRun
    /\ pc = "price_call"
    /\ args \in [x : Decimals, c : PricingConfigs]
    /\ result = <<>>

\* the classifier rounds the value
RoundFloatCall ==
    Return("price_call", "price_rounded", [rounded |-> roundFloat(NF(args.x))])

\* the price calculator takes the value as the cost
CalculatePricesCall ==
    Return("price_rounded", "price_done",
           [rounded |-> result.rounded, prices |-> calculatePrices(NF(args.x), args.c)])

NextPricing ==
    \/ RoundFloatCall
    \/ CalculatePricesCall

SpecPricing == InitPricing /\ [][NextPricing]_vars

(***************************************************************************)
(* Properties.                                                             *)
(***************************************************************************)
Returned == pc = "pr_ret"
ReturnedOk == pc = "pr_ret" /\ ret.err = "nil"
SrcIdx == 1..Len(source)
InSnapshot(k) == source[k].IDEstoque \in DOMAIN existingRecords
SameAsSource(rec, k) ==
    UpToDate(rec, source[k].Descricao, source[k].QtdAtual, source[k].PrcCusto,
             source[k].PrcDolar, cfg)

\* C1: a run of ProcessRows that returns without error ends with
\* inserted + updated + ignored equal to the number of active source rows
\* minus the rows whose Scan failed, which is also the reported totalRows.
C1_CountersAddUp ==
    ReturnedOk =>
        /\ ret.inserted + ret.updated + ret.ignored = Len(source) - Cardinality(skipped)
        /\ ret.totalRows = Len(source) - Cardinality(skipped)

\* C2: when a bulk insert or bulk update of any worker has failed,
\* ProcessRows does not return a nil error.
C2_WriteErrorReturned ==
    (Returned /\ failedOps # {}) => ret.err # "nil"

C4_ChecksRestored ==
    (pc = "rp_done" /\ checksDisabled) =>
        uniqueChecks = 1 /\ foreignKeyChecks = 1

\* C5: a run in which a worker dropped operations because the context was
\* cancelled does not return a nil error.
C5_CancellationReturned ==
    (Returned /\ dropped > 0) => ret.err # "nil"

\* C6: a run without scan error and without write failure that returns
\* without error reports inserted = rows absent from the snapshot, updated =
\* rows present and different, ignored = rows present and equal.
C6_CountsByClass ==
    (ReturnedOk /\ skipped = {} /\ failedOps = {}) =>
        /\ ret.inserted = Cardinality({k \in SrcIdx : ~InSnapshot(k)})
        /\ ret.updated = Cardinality({k \in SrcIdx :
              InSnapshot(k) /\ ~SameAsSource(existingRecords[source[k].IDEstoque], k)})
        /\ ret.ignored = Cardinality({k \in SrcIdx :
              InSnapshot(k) /\ SameAsSource(existingRecords[source[k].IDEstoque], k)})

\* C7: after a run that returns without error, every target row whose id is
\* in the snapshot and in the source holds the source description and
\* quantity, the rounded cost and dollar value and the four prices computed
\* from the source cost.
C7_SnapshotRowsRefreshed ==
    ReturnedOk =>
        \A k \in SrcIdx :
            InSnapshot(k) =>
                /\ source[k].IDEstoque \in DOMAIN target
                /\ SameAsSource(target[source[k].IDEstoque], k)

\* C8: when the run is over, every Insert and Update that was enqueued and
\* was not part of a batch whose write failed is in the target.
C8_FailureIsolated ==
    (pc \in {"pr_post", "pr_ret"} /\ ~ctxDone /\ \A w \in Workers : wpc[w] = "done") =>
        \A k \in 1..Len(sent) :
            (sent[k].Type # "OpIgnore" /\ sent[k].IDEstoque \notin failedOps) =>
                /\ sent[k].IDEstoque \in DOMAIN target
                /\ target[sent[k].IDEstoque] = RowOf(sent[k])

\* C9: a bulk insert rejected for exceeding the max packet makes the worker
\* halve its batch size and try the insert a second time within the flush.
C9_HalvesAndRetriesOnce ==
    lastFlush.ins = "packet" =>
        /\ lastFlush.insCalls = 2
        /\ lastFlush.limit <= batchSize \div 2

\* C10: a bulk write that returns an error has changed none of the rows of
\* its batch (a failed insert, after which the update is not attempted,
\* leaves the whole table as it was), and one that returns success has
\* written all of them.
BatchAllOrNothing ==
    lastFlush' # lastFlush =>
        LET f == lastFlush'
        IN /\ f.ins \notin {"ok", "none"} => target' = target
           /\ f.ins = "ok" =>
                \A k \in 1..Len(f.insOps) :
                    /\ f.insOps[k].IDEstoque \notin DOMAIN target
                    /\ f.insOps[k].IDEstoque \in DOMAIN target'
                    /\ target'[f.insOps[k].IDEstoque] = RowOf(f.insOps[k])
           /\ f.upd \notin {"ok", "none"} =>
                \A k \in 1..Len(f.updOps) :
                    f.updOps[k].IDEstoque \in DOMAIN target =>
                        target'[f.updOps[k].IDEstoque] = target[f.updOps[k].IDEstoque]
           /\ f.upd = "ok" =>
                \A k \in 1..Len(f.updOps) :
                    f.updOps[k].IDEstoque \in DOMAIN target =>
                        target'[f.updOps[k].IDEstoque] = RowOf(f.updOps[k])
C10_BatchAllOrNothing == [][BatchAllOrNothing]_vars

\* an update transaction of at least two rows has failed
C10_Witness ==
    lastFlush.upd = "error" /\ Len(lastFlush.updOps) >= 2

(***************************************************************************)
(* Properties of the run: load failure, scan errors, inserts, exactly-once,*)
(* inactive rows, frame, post-processing.                                  *)
(***************************************************************************)
SourceIds == {source[k].IDEstoque : k \in SrcIdx}
\* the operations that sit in a worker's buffers
Buffered(w) == insertBatch[w] \o updateBatch[w]
\* every Insert or Update operation the run holds anywhere
IsWrite(op) == op.Type # "OpIgnore"
WritesIn(ops) == {ops[k].IDEstoque : k \in {j \in 1..Len(ops) : IsWrite(ops[j])}}
InsertsIn(ops) == {ops[k].IDEstoque : k \in {j \in 1..Len(ops) : ops[j].Type = "OpInsert"}}
CountOf(ops, type) == Cardinality({k \in 1..Len(ops) : ops[k].Type = type})
RECURSIVE SumUpTo(_, _)
SumUpTo(f, n) == IF n = 0 THEN 0 ELSE f[n] + SumUpTo(f, n - 1)

\* C11: when loadMySQLRecords fails, ProcessRows returns that error and has
\* started no worker, issued no bulk insert or update and called no stored
\* routine.
C11_LoadFailureWritesNothing ==
    ret.err = "load" =>
        /\ pc = "pr_ret"
        /\ \A w \in Workers : wpc[w] = "idle"
        /\ lastFlush = NoFlush
        /\ \A i \in Ids : applied[i] = 0
        /\ procCalls = <<>>
        /\ sent = <<>> /\ received = 0

\* the load failed although both the source and the target hold rows
C11_Witness ==
    ret.err = "load" /\ pc = "pr_ret" /\ source # <<>> /\ target # <<>>

\* C12: the step in which a row fails to scan enqueues nothing and changes
\* no counter, no buffer and no target row, and the loop goes on with the
\* next row; every row the cursor yielded is either skipped or enqueued, never
\* both, and a run that returns without error has enqueued every row that
\* scanned and reports their number as totalRows.
ScanErrorStep ==
    skipped' # skipped =>
        /\ sent' = sent /\ workChan' = workChan /\ rowCount' = rowCount
        /\ insertedCount' = insertedCount /\ updatedCount' = updatedCount
        /\ ignoredCount' = ignoredCount
        /\ insertBatch' = insertBatch /\ updateBatch' = updateBatch
        /\ target' = target
        /\ pc' = "pr_feed" /\ next' = next + 1
ScanErrorInv ==
    /\ Len(sent) + Cardinality(skipped) = next - 1
    /\ rowCount = Len(sent)
    /\ skipped \cap WritesIn(sent) = {}
    /\ ReturnedOk =>
          /\ next = Len(source) + 1
          /\ ret.totalRows = Len(source) - Cardinality(skipped)
C12_ScanErrorSkipped == [][ScanErrorStep]_vars /\ []ScanErrorInv

\* a row failed to scan and a later row was written
C12_Witness ==
    /\ ReturnedOk /\ skipped # {}
    /\ \E i \in skipped : \E j \in Ids : j > i /\ applied[j] = 1

\* C13: the id of every Insert operation, wherever it is (enqueued, in the
\* channel, in a buffer, in a written batch), is not a key of the snapshot,
\* and every row the target has gained is one of them.
C13_InsertsNotInSnapshot ==
    LET snap == DOMAIN existingRecords
    IN /\ InsertsIn(sent) \cap snap = {}
       /\ InsertsIn(workChan) \cap snap = {}
       /\ \A w \in Workers :
            /\ IdsOf(insertBatch[w]) \cap snap = {}
            /\ \A k \in 1..Len(insertBatch[w]) : insertBatch[w][k].Type = "OpInsert"
       /\ IdsOf(lastFlush.insOps) \cap snap = {}
       /\ pc # "pr_load" /\ ret.err # "load" =>
             (DOMAIN target) \ snap \subseteq InsertsIn(sent)

\* an insert batch was written while the snapshot held other rows
C13_Witness ==
    /\ lastFlush.ins = "ok" /\ Len(lastFlush.insOps) >= 1
    /\ existingRecords # <<>>
    /\ IdsOf(lastFlush.insOps) \subseteq DOMAIN target

C18_InactiveRowsUntouched ==
    LET inactive == {i \in Ids : firebird[i].Status # "A"}
        active == Cardinality(Ids \ inactive)
    IN /\ inactive \cap SourceIds = {}
       /\ inactive \cap skipped = {}
       /\ inactive \cap WritesIn(sent) = {}
       /\ inactive \cap WritesIn(workChan) = {}
       /\ \A w \in Workers : inactive \cap IdsOf(Buffered(w)) = {}
       /\ \A i \in inactive : applied[i] = 0
       /\ Len(sent) <= active /\ rowCount <= active
       /\ insertedCount + updatedCount + ignoredCount <= active

\* a run wrote an active row while an inactive row, absent from the target,
\* stayed absent
C18_Witness ==
    /\ ReturnedOk /\ ret.inserted >= 1
    /\ \E i \in Ids : firebird[i].Status = "I" /\ i \notin DOMAIN target

\* C19: once the snapshot is loaded, every row of the snapshot is still in
\* the target, the rows whose id is not among the active source rows are as
\* in the snapshot, and the target has gained no row outside the source.
C19_OtherRowsUnchanged ==
    (pc # "pr_load" /\ ret.err # "load") =>
        /\ \A i \in DOMAIN existingRecords :
              /\ i \in DOMAIN target
              /\ i \notin SourceIds => target[i] = existingRecords[i]
        /\ DOMAIN target \subseteq DOMAIN existingRecords \cup SourceIds

\* an update batch was written while the target holds a row that is not in
\* the source
C19_Witness ==
    /\ lastFlush.upd = "ok"
    /\ \E i \in DOMAIN existingRecords : i \notin SourceIds

\* C20: the stored routines are called in the order UpdateQtdVirtual,
\* SP_ATUALIZAR_PART_NUMBER; the first only when the channel is closed and
\* every worker has exited, the second only when the first returned without
\* error; and no target row changes after the first call.
C20_PostProcessingOrder ==
    /\ Len(procCalls) <= 2
    /\ procCalls # <<>> =>
          /\ procCalls[1].name = "UpdateQtdVirtual"
          /\ closed /\ \A w \in Workers : wpc[w] = "done"
          /\ pc = "pr_ret"
    /\ Len(procCalls) = 2 =>
          /\ procCalls[2].name = "SP_ATUALIZAR_PART_NUMBER"
          /\ procCalls[1].ok
    /\ ret.err = "nil" => Len(procCalls) = 2 /\ procCalls[2].ok

\* both routines ran after a batch had been written
C20_Witness ==
    /\ Len(procCalls) = 2 /\ procCalls[2].ok
    /\ lastFlush.ins = "ok" /\ ret.err = "nil"

(***************************************************************************)
(* Properties of the classifier (SpecClassify).                            *)
(***************************************************************************)
Classified == pc = "classified"
\* the snapshot row under the id of the source row, when there is one
HasRec == source[1].IDEstoque \in DOMAIN existingRecords
Rec == existingRecords[source[1].IDEstoque]
Emitted == sent[1]
\* a decimal in whole cents, halves up, NULL read as 0.00
Cents(v) == IF v.Valid THEN (v.Float64 + 5) \div 10 ELSE 0
CentsOf(x) == (x + 5) \div 10
MoneyFields == {"ValorCusto", "ValorUsd", "PrcVenda", "Prc3x", "Prc6x", "Prc10x"}
PriceFields == {"PrcVenda", "Prc3x", "Prc6x", "Prc10x"}
\* what the source side holds for a compared decimal field
SourceSide(field) ==
    LET p == calculatePrices(source[1].PrcCusto, cfg)
    IN CASE field = "ValorCusto" -> Cents(source[1].PrcCusto)
         [] field = "ValorUsd"   -> Cents(source[1].PrcDolar)
         [] field = "PrcVenda"   -> CentsOf(p.prcVenda)
         [] field = "Prc3x"      -> CentsOf(p.prc3x)
         [] field = "Prc6x"      -> CentsOf(p.prc6x)
         [] OTHER                -> CentsOf(p.prc10x)
CostMissingOrZero == ~source[1].PrcCusto.Valid \/ source[1].PrcCusto.Float64 = 0

\* C15: for a source row whose id is in the snapshot the classifier emits
\* Ignore exactly when the snapshot description and quantity are not NULL and
\* equal the source values and cost, dollar value and the four prices agree
\* in whole cents (NULL read as 0.00); otherwise it emits Update.
C15_IgnoreIffEqualInCents ==
    (Classified /\ HasRec) =>
        LET same == /\ Rec.Descricao.Valid /\ Rec.Quantidade.Valid
                    /\ Rec.Descricao.String = source[1].Descricao
                    /\ Rec.Quantidade.Float64 = source[1].QtdAtual
                    /\ \A f \in MoneyFields : Cents(Rec[f]) = SourceSide(f)
        IN /\ Emitted.Type \in {"OpIgnore", "OpUpdate"}
           /\ Emitted.Type = "OpIgnore" <=> same

\* Ignore although the stored cost (1.00) is not the source cost (1.004)
C15_Witness ==
    /\ Classified /\ HasRec /\ Emitted.Type = "OpIgnore"
    /\ source[1].PrcCusto = NF(1004) /\ Rec.ValorCusto = NF(1000)

\* C16: a snapshot row with a NULL in any nullable column makes the
\* classifier emit Update.
C16_NullFieldIsUpdate ==
    (Classified /\ HasRec
       /\ (~Rec.Descricao.Valid \/ ~Rec.Quantidade.Valid
             \/ \E f \in MoneyFields : ~Rec[f].Valid)) =>
        Emitted.Type = "OpUpdate"

\* C17 (as amended): for a source row whose cost is missing or zero the four
\* prices of an emitted Insert or Update are 0, and the row is classified
\* Update when a derived price of the snapshot row is not 0.00 after rounding
\* to two decimals.
C17_ZeroCostZeroPrices ==
    (Classified /\ CostMissingOrZero) =>
        /\ Emitted.Type = "OpInsert" <=> ~HasRec
        /\ Emitted.Type # "OpIgnore" =>
              /\ Emitted.PrcVenda = 0 /\ Emitted.Prc3x = 0
              /\ Emitted.Prc6x = 0 /\ Emitted.Prc10x = 0
        /\ (HasRec /\ \E f \in PriceFields : Cents(Rec[f]) # 0) =>
              Emitted.Type = "OpUpdate"

\* C17 as stated: any non-zero derived price of the snapshot row makes the
\* row an Update.
C17_AsStated ==
    (Classified /\ CostMissingOrZero /\ HasRec
       /\ \E f \in PriceFields : Rec[f].Valid /\ Rec[f].Float64 # 0) =>
        Emitted.Type = "OpUpdate"

\* a row without cost whose snapshot row has a sell price is updated to zeros
C17_Witness ==
    /\ Classified /\ HasRec /\ ~source[1].PrcCusto.Valid
    /\ Rec.PrcVenda = NF(1410)
    /\ Emitted.Type = "OpUpdate" /\ Emitted.PrcVenda = 0

C22_DefaultIffNotANumber ==
    pc = "cfg_ret" =>
        \A n \in SettingNames :
            result[n] = IF args[n] = <<>> \/ ParseFloat(args[n]).err # "nil"
                        THEN DefaultOf[n] * 1000
                        ELSE ParseFloat(args[n]).val

\* C23: isNewerVersion(current, remote) is true exactly when both strings
\* are non-empty and the (major, minor, patch) triple of remote is greater
\* than that of current in lexicographic order, a leading 'v' being
\* ignored, a missing component counting as 0 and components after the
\* third being ignored; so it is false for equal versions and never true in
\* both directions.
ComponentOf(in, i) == IF i <= Len(in.comps) THEN Num(in.comps[i]) ELSE 0
TripleGreater(a, b) ==
    \/ ComponentOf(a, 1) > ComponentOf(b, 1)
    \/ /\ ComponentOf(a, 1) = ComponentOf(b, 1)
       /\ \/ ComponentOf(a, 2) > ComponentOf(b, 2)
          \/ /\ ComponentOf(a, 2) = ComponentOf(b, 2)
             /\ ComponentOf(a, 3) > ComponentOf(b, 3)
C23_NewerIffTripleGreater ==
    /\ pc \in {"ver_ret", "ver_back"} =>
          result[1] = (/\ VersionString(args.current) # <<>>
                       /\ VersionString(args.remote) # <<>>
                       /\ TripleGreater(args.remote, args.current))
    /\ pc = "ver_back" => ~(result[1] /\ result[2])
C23_Witness ==
    /\ pc = "ver_back"
    /\ result = <<TRUE, FALSE>>
    /\ args.current.v /\ ~args.remote.v
    /\ Len(args.current.comps) = 4 /\ Len(args.remote.comps) = 2
    /\ ComponentOf(args.remote, 2) = 10 /\ ComponentOf(args.current, 2) = 1

\* C24: parseGithubOwnerRepo(u) returns ok exactly when u, without a
\* leading "https://", splits on '/' into at least three segments of which
\* the first is "github.com"; owner and repo are then the second and the
\* third segment, and otherwise both are empty and ok is false.
SegmentsOf(in) ==
    LET segs == IF in.segs = <<>> THEN <<<<>>>> ELSE in.segs
    IN IF in.scheme = <<"http:", "/", "/">> THEN <<<<"http:">>, <<>>>> \o segs
       ELSE segs
C24_OwnerRepoFromGithubUrl ==
    pc = "gh_ret" =>
        LET segs == SegmentsOf(args)
        IN IF Len(segs) >= 3 /\ segs[1] = <<"github.com">>
           THEN result = [owner |-> segs[2], repo |-> segs[3], ok |-> TRUE]
           ELSE result = [owner |-> <<>>, repo |-> <<>>, ok |-> FALSE]
C24_Witness ==
    /\ pc = "gh_ret"
    /\ args.scheme = <<"https:", "/", "/">>
    /\ Len(args.segs) = 4
    /\ result = [owner |-> <<"waldirborbajr">>, repo |-> <<"sync">>, ok |-> TRUE]

\* C25: whenever ProcessRows has returned after starting its workers, every
\* worker has exited, so that none writes to the target or touches a
\* counter after the return.
C25_WorkersGoneAtReturn ==
    /\ [](pc = "pr_ret" => \A w \in Workers : wpc[w] # "run")
    /\ [][pc = "pr_ret" /\ pc' = "pr_ret" =>
            target' = target /\ counterVars' = counterVars]_vars

\* C26: ProcessRows eventually returns, whatever the interleaving, the
\* write failures and the cancellation: a producer held up by a full queue
\* gets on, the queue is closed once and only by the producer on its way out
\* of the feed loop, and the wait for the workers ends.
QueueFull == pc = "pr_feed" /\ next <= Len(source) /\ Len(workChan) = ChanCap
C26_ProcessRowsReturns ==
    /\ <>(pc = "pr_ret")
    /\ QueueFull ~> ~QueueFull
    /\ (pc = "pr_wait") ~> (pc # "pr_wait")
    /\ [][closed' # closed =>
            ~closed /\ pc = "pr_feed" /\ pc' \in {"pr_wait", "pr_ret"}]_vars
    /\ [][pc' = "pr_feed" => ~closed']_vars
    /\ [](pc \in {"pr_wait", "pr_post"} => closed)
C26_Witness ==
    /\ QueueFull
    /\ ~ctxDone
    /\ \A w \in Workers : wpc[w] = "run"

\* C27: a worker that leaves because the queue is closed and drained, the
\* context not being cancelled, first attempts a bulk insert of everything
\* in its insert buffer and a bulk update of everything in its update
\* buffer.
FinalFlushOf(w) == wpc[w] = "run" /\ wpc'[w] = "done" /\ dropped' = dropped
C27_FinalFlushAttemptsBoth ==
    [][\A w \in Workers :
          FinalFlushOf(w) /\ ~ctxDone =>
             /\ insertBatch[w] # <<>> =>
                   /\ lastFlush'.w = w
                   /\ lastFlush'.ins # "none"
                   /\ lastFlush'.insOps = insertBatch[w]
             /\ updateBatch[w] # <<>> =>
                   /\ lastFlush'.w = w
                   /\ lastFlush'.upd # "none"
                   /\ lastFlush'.updOps = updateBatch[w]]_vars

\* C28: a worker that finds the context cancelled when it takes an
\* operation from the queue exits at once: the step writes nothing, counts
\* nothing and buffers nothing, and a worker that has exited never writes
\* again.
ObservesCancellation == ctxDone /\ received' = received + 1
C28_NoWriteAfterCancellation ==
    /\ [][ObservesCancellation =>
            /\ \E w \in Workers : wpc[w] = "run" /\ wpc' = wgDone(w)
            /\ target' = target
            /\ lastFlush' = lastFlush
            /\ applied' = applied
            /\ counterVars' = counterVars
            /\ insertBatch' = insertBatch /\ updateBatch' = updateBatch]_vars
    /\ [][\A w \in Workers :
            wpc[w] = "done" =>
               /\ wpc'[w] = "done"
               /\ insertBatch'[w] = insertBatch[w] /\ updateBatch'[w] = updateBatch[w]
               /\ lastFlush' # lastFlush => lastFlush'.w # w]_vars
C28_Witness ==
    /\ ctxDone
    /\ \E w \in Workers :
          /\ wpc[w] = "done"
          /\ insertBatch[w] # <<>>
          /\ dropped = 1 + Len(insertBatch[w]) + Len(updateBatch[w])
          /\ lastFlush.w # w

\* C29: inserted (updated) grows only in a step whose bulk insert (bulk
\* update) succeeded, by the size of that batch, whose rows are then in the
\* target; ignored grows by one with each Ignore operation received; so
\* inserted and updated never exceed the rows written by inserts and by
\* updates, and the three counters together never exceed the operations
\* enqueued.
InTarget(ops, db) ==
    \A k \in 1..Len(ops) :
        ops[k].IDEstoque \in DOMAIN db /\ db[ops[k].IDEstoque] = RowOf(ops[k])
WrittenBy(type) ==
    Cardinality({k \in 1..Len(sent) :
                    sent[k].Type = type /\ applied[sent[k].IDEstoque] >= 1})
C29_CountersFollowWrites ==
    /\ [][/\ insertedCount' # insertedCount =>
               /\ lastFlush'.ins = "ok"
               /\ insertedCount' = insertedCount + Len(lastFlush'.insOps)
               /\ InTarget(lastFlush'.insOps, target')
          /\ updatedCount' # updatedCount =>
               /\ lastFlush'.upd = "ok"
               /\ updatedCount' = updatedCount + Len(lastFlush'.updOps)
               /\ InTarget(lastFlush'.updOps, target')
          /\ ignoredCount' # ignoredCount =>
               /\ received' = received + 1
               /\ Head(workChan).Type = "OpIgnore"
               /\ ignoredCount' = ignoredCount + 1
          /\ (received' = received + 1 /\ ~ctxDone
                 /\ Head(workChan).Type = "OpIgnore") =>
               ignoredCount' = ignoredCount + 1]_vars
    /\ [](/\ insertedCount <= WrittenBy("OpInsert")
          /\ updatedCount <= WrittenBy("OpUpdate")
          /\ insertedCount + updatedCount + ignoredCount <= Len(sent))
C29_Witness ==
    /\ insertedCount >= 1 /\ updatedCount >= 1
    /\ lastFlush.ins = "ok" /\ lastFlush.upd = "ok"
    /\ failedOps # {}
    /\ insertedCount + updatedCount + ignoredCount < Len(sent)

\* C30: neither buffer of a worker ever holds more than the batch size, and
\* no bulk insert or bulk update carries more rows than the batch size,
\* also after a flush that failed.
C30_BuffersWithinBatchSize ==
    /\ \A w \in Workers :
          /\ Len(insertBatch[w]) <= workerBatchSize(w)
          /\ Len(updateBatch[w]) <= workerBatchSize(w)
    /\ Len(lastFlush.insOps) <= lastFlush.limit
    /\ Len(lastFlush.updOps) <= lastFlush.limit

\* C31: the step in which a worker's buffer of one kind reaches the batch
\* size executes one bulk write of exactly that many rows of that kind and
\* leaves the buffer empty, so that the final flush of a worker that got no
\* further operation of the kind writes nothing more of it.
FillsInsertBuffer(w) ==
    /\ ~ctxDone /\ received' = received + 1
    /\ Head(workChan).Type = "OpInsert"
    /\ Len(insertBatch[w]) = workerBatchSize(w) - 1
    /\ insertBatch'[w] # insertBatch[w]
FillsUpdateBuffer(w) ==
    /\ ~ctxDone /\ received' = received + 1
    /\ Head(workChan).Type = "OpUpdate"
    /\ Len(updateBatch[w]) = workerBatchSize(w) - 1
    /\ updateBatch'[w] # updateBatch[w]
C31_OneFlushAtBatchSize ==
    [][\A w \in Workers :
          /\ FillsInsertBuffer(w) =>
                /\ lastFlush'.w = w /\ lastFlush'.ins = "ok"
                /\ lastFlush'.insCalls = 1
                /\ Len(lastFlush'.insOps) = workerBatchSize(w)
                /\ insertBatch'[w] = <<>>
          /\ FillsUpdateBuffer(w) =>
                /\ lastFlush'.w = w /\ lastFlush'.upd = "ok"
                /\ Len(lastFlush'.updOps) = workerBatchSize(w)
                /\ updateBatch'[w] = <<>>
          /\ FinalFlushOf(w) =>
                /\ insertBatch[w] = <<>> => lastFlush'.ins = "none"
                /\ updateBatch[w] = <<>> => lastFlush'.upd = "none"]_vars

\* C32: when the first post-processing routine is called, unique_checks and
\* foreign_key_checks have been set back to 1.
C32_RestoredBeforePostProcessing ==
    [][procCalls = <<>> /\ procCalls' # <<>> =>
          uniqueChecks = 1 /\ foreignKeyChecks = 1]_vars

\* C33: the batch size the workers flush at and the batch size ProcessRows
\* returns are the probed max packet size divided by 200, clamped to
\* [100, 5000].
Clamp(x, lo, hi) == IF x < lo THEN lo ELSE IF x > hi THEN hi ELSE x
C33_BatchSizeFromPacket ==
    pc = "size_started" /\ args.maxAllowedPacket.ok =>
        /\ result.batchSize = Clamp(args.maxAllowedPacket.val \div 200, 100, 5000)
        /\ result.workerBatchSize = Clamp(args.maxAllowedPacket.val \div 200, 100, 5000)

\* C35: the cap on open connections of the target pool is at most the
\* server's declared max_connections, and the number of workers is at most
\* that cap.
C35_PoolWithinServerLimit ==
    pc = "size_started" /\ args.maxConnections.ok =>
        /\ result.maxOpenConns <= args.maxConnections.val
        /\ result.started <= result.maxOpenConns

\* C36: the number of workers started is twice the CPU count, clamped to
\* [4, 20].
C36_WorkersFromCpuCount ==
    pc = "size_started" => result.started = Clamp(2 * args.cpus, 4, 20)
C36_Witness ==
    /\ pc = "size_started"
    /\ args.cpus = 1
    /\ result.started = 4

\* C34: once loaded, the snapshot is never modified during the run, and the
\* operation enqueued for a source row is the classification of that row
\* against the snapshot under the pricing configuration, whatever was
\* classified or written before it.
C34_SnapshotReadOnly ==
    /\ [][pc # "pr_load" => existingRecords' = existingRecords]_vars
    /\ [][Len(sent') = Len(sent) + 1 =>
            LET r == source[next]
            IN sent'[Len(sent')] =
                  processRowOptimized(existingRecords, r.IDEstoque, r.Descricao,
                                      r.QtdAtual, r.PrcCusto, r.PrcDolar, cfg)]_vars
C34_Witness ==
    /\ pc = "pr_feed" /\ next <= Len(source)
    /\ source[next].IDEstoque \in DOMAIN existingRecords
    /\ \E j \in 1..Len(sent) :
          sent[j].Type # "OpIgnore" /\ applied[sent[j].IDEstoque] = 1
    /\ \E i \in DOMAIN target :
          i \notin DOMAIN existingRecords \/ target[i] # existingRecords[i]

\* floor(n/d + 1/2) for an even d > 0
FloorPlusHalf(n, d) == (n + d \div 2) \div d

Executed(type, idEstoque) ==
    \E k \in 1..Len(tx.ops) :
       tx.ops[k].Type = type /\ tx.ops[k].IDEstoque = idEstoque

\* C39: in the legacy ProcessRows the final batch is executed, and the commit
\* issued, only after every classification goroutine has finished appending,
\* so that nothing a goroutine produced is left out of the committed
\* transaction.
C39_AllExecutedBeforeCommit ==
    /\ [][pc = "lg_feed" /\ pc' = "lg_commit" => goroutines = {}]_vars
    /\ [][pc = "lg_commit" /\ pc' = "lg_wait" =>
             goroutines = {} /\ batchInsert = <<>> /\ batchUpdate = <<>>]_vars
    /\ [](tx.state = "committed" => batchInsert = <<>> /\ batchUpdate = <<>>)

\* C40: in the legacy ProcessRows a source row whose id the snapshot lacks
\* has, once its goroutine finished, an insert in the batch or the
\* transaction, and the inserted counter has counted it.
C40_NewRowsInserted ==
    \A i \in 1..(next - 1) :
       (/\ pc \in {"lg_feed", "lg_commit", "lg_wait", "lg_ret"}
        /\ i \notin goroutines
        /\ source[i].IDEstoque \notin skipped
        /\ source[i].IDEstoque \notin DOMAIN existingRecords)
       => /\ \/ Executed("OpInsert", source[i].IDEstoque)
             \/ \E k \in 1..Len(batchInsert) :
                   batchInsert[k].IDEstoque = source[i].IDEstoque
          /\ insertedCount >= 1

====
